---- MODULE Spec2Model ----
(***************************************************************************)
(* A model of the Victron MK3 driver (src/victron_mk3/__init__.py): the    *)
(* frame codec, the driver loop (_VictronMK3Driver.run), the frame decoder *)
(* (_handle_frame), the variable-info bootstrap, the W/X/Y/Z nonce slot,   *)
(* the waiter table and the facade's start/stop/request methods.           *)
(*                                                                         *)
(* Time is counted in units of half a second (the largest unit in which    *)
(* every timeout of the program is a whole number).  Timers are kept as    *)
(* count-downs; Tick lets half a second pass and is possible only while    *)
(* no armed timer has reached zero.                                        *)
(***************************************************************************)
EXTENDS Integers, Sequences, FiniteSets, TLC

VARIABLES
    driver,                       \* VictronMK3._driver is not None
    pc,                           \* position of the driver task (run)
    ready,                        \* the asyncio.Event start() waits on
    startPc,                      \* position of the caller inside start()
    stopPc,                       \* position of a caller inside stop()
    writer,                       \* _VictronMK3Driver._writer: "none", "open"
    closed,                       \* writer.close() has been called on the stream
    w_nonce,                      \* _w_nonce
    w_completion,                 \* _w_completion is not None
    variable_id_queue,            \* _variable_id_queue
    variable_info,                \* _variable_info: id -> VariableInfo
    request_age,                  \* now - _variable_info_request_time, or None
    response_waiters,             \* _response_waiters (ordered)
    reqPc,                        \* per caller task: position in a request method
    reqLeft,                      \* per caller task: time left on asyncio.timeout
    wEvent,                       \* per caller task: waiter[2] is set
    wResult,                      \* per caller task: waiter[3]
    reqReturn,                    \* per caller task: what its last request returned
    reqLate,                      \* per caller task: its last request found the session Terminated
    rx,                           \* bytes the transport holds for the reader
    size,                         \* the length byte read by readexactly(1)
    idleLeft,                     \* time left on the loop's asyncio.timeout
    tx,                           \* frames written and not yet taken by the device
    devPending,                   \* the variable-info request the device has to answer
    handled,                      \* the msg given to _handle_frame in this loop iteration
    delivered,                    \* handler.on_response calls of this loop iteration
    idleCalls,                    \* handler.on_idle calls (counted modulo IdleMod)
    faults,                       \* handler.on_fault calls, in order
    afterIdle,                    \* what followed the last on_idle: see IdleTimeout, Feed, ReadBody
    handler,                      \* the Handler given to start(): "user", or "probe" (_ProbeHandler)
    result,                       \* _ProbeHandler.result
    finished,                     \* _ProbeHandler.finished is set
    first,                        \* the ProbeResult of the first callback the _ProbeHandler got
    cause,                        \* the exception that ended run(): <<where, its class>>
    call,                         \* the input under test: a _send_frame call, a corrupted frame
    restarts,                     \* start() calls that followed a stop() on this instance
    writeFails                    \* writer.write(msg) raises serial.SerialException

vars == <<driver, pc, ready, startPc, stopPc, writer, closed, w_nonce,
          w_completion,
          variable_id_queue, variable_info, request_age, response_waiters,
          reqPc, reqLeft, wEvent, wResult, reqReturn, reqLate, rx, size, idleLeft, tx,
          devPending, handled, delivered, idleCalls, faults, afterIdle,
          handler, result, finished, first, cause, call, restarts,
          writeFails>>

----------------------------------------------------------------------------
(* Bounds of the model. *)

\* caller tasks that may be inside a request method at the same time
NumTasks == 2
\* handler.on_idle calls are counted modulo this
IdleMod == 2
\* variable-info requests the device holds before it answers them
MaxPending == 2
\* bytes the transport buffers for the reader before the device holds back
MaxBuffered == 24
\* the longest payload of a frame under test
MaxPayload == 252
\* the age of a variable-info request is counted up to this many half-seconds
MaxAge == 4
\* variable-info requests a slow device holds before it answers them
MaxDelayed == 2
\* start() is called again after a stop() at most this many times
MaxRestarts == 1

(* Program constants, in half-seconds. *)
REQUEST_TIMEOUT_SECONDS == 1
IDLE_TIMEOUT_SECONDS == 10

\* _variable_info_request_time is None
None == -1
Tasks == 1..NumTasks
NoResponse == [kind |-> "None"]

----------------------------------------------------------------------------
(* Codec. *)

\* sum(msg), added up by halves
RECURSIVE Sum(_)
Sum(s) ==
    IF Len(s) = 0 THEN 0
    ELSE IF Len(s) = 1 THEN s[1]
    ELSE LET h == Len(s) \div 2
         IN  Sum(SubSeq(s, 1, h)) + Sum(SubSeq(s, h + 1, Len(s)))

Ord(c) ==
    CASE c = "A" -> 65 [] c = "F" -> 70 [] c = "H" -> 72 [] c = "L" -> 76
      [] c = "R" -> 82 [] c = "S" -> 83 [] c = "V" -> 86 [] c = "W" -> 87
      [] c = "X" -> 88 [] c = "Y" -> 89 [] c = "Z" -> 90

\* a checksum one short of closing the sum
ChecksumOffByOne(bytes) == (255 - (Sum(bytes) % 256)) % 256

\* (256 - sum(msg[:-1])) & 255
Checksum(bytes) == (256 - (Sum(bytes) % 256)) % 256

\* the bytearray _send_frame builds and writes
FrameBytes(command, data) ==
    LET head == <<Len(data) + 2, 255, Ord(command)>> \o data
    IN  head \o <<Checksum(head)>>

\* a write that does not look at the writer
send_frame_unguarded(s, command, data) ==
    [s EXCEPT !.tx = Append(@, FrameBytes(command, data))]

\* a write that lets the SerialException through
send_frame_raising(s, command, data) ==
    IF s.writer = "open"
    THEN IF s.writeFails
         THEN [s EXCEPT !.exc = TRUE]
         ELSE [s EXCEPT !.tx = Append(@, FrameBytes(command, data))]
    ELSE s

\* self._writer.write(msg), skipped when the writer is None; a
\* serial.SerialException that write raises is swallowed
send_frame(s, command, data) ==
    IF s.writer = "open"
    THEN IF s.writeFails
         THEN s
         ELSE [s EXCEPT !.tx = Append(@, FrameBytes(command, data))]
    ELSE s

\* a validation that tests the length only
FrameValidLengthOnly(sz, msg) == Len(msg) = sz + 1

\* len(msg) == size[0] + 1 and (size[0] + sum(msg)) & 255 == 0
FrameValid(sz, msg) == Len(msg) = sz + 1 /\ (sz + Sum(msg)) % 256 = 0

----------------------------------------------------------------------------
(* Variable registry. *)

\* msg[i] of a Python bytes object (0-based)
B(msg, i) == msg[i + 1]

\* msg[a:b] of a Python bytes object
Slice(msg, a, b) == SubSeq(msg, a + 1, b)

RECURSIVE LittleEndian(_)
LittleEndian(raw) ==
    IF raw = <<>> THEN 0 ELSE Head(raw) + 256 * LittleEndian(Tail(raw))

RECURSIVE Pow256(_)
Pow256(n) == IF n = 0 THEN 1 ELSE 256 * Pow256(n - 1)

\* VariableInfo.parse: scale * (raw + offset), as the fraction n / d
parse(info, raw) ==
    LET u == LittleEndian(raw)
        v == IF info.signed /\ 2 * u >= Pow256(Len(raw)) THEN u - Pow256(Len(raw)) ELSE u
    IN  [n |-> info.n * (v + info.offset), d |-> info.d]

\* round(0 if period == 0 else 10 / period, 2), in hundredths
period_to_frequency(period) ==
    IF period.n = 0 THEN 0
    ELSE LET a == 1000 * period.d
             b == IF period.n < 0 THEN -period.n ELSE period.n
             q == (2 * a + b) \div (2 * b)
         IN  IF period.n < 0 THEN -q ELSE q

W_LETTERS == <<"W", "X", "Y", "Z">>

\* a request that keeps the nonce of the one before it
send_w_request_same_nonce(s, msg) ==
    send_frame([s EXCEPT !.w_completion = TRUE], W_LETTERS[s.w_nonce + 1], msg)

\* _send_w_request
send_w_request(s, msg) ==
    LET n == (s.w_nonce + 1) % 4
    IN  send_frame([s EXCEPT !.w_nonce = n, !.w_completion = TRUE],
                   W_LETTERS[n + 1], msg)

\* a pump that never sends again while a request is unanswered
populate_never_retries(s) ==
    IF Len(s.variable_id_queue) = 0 THEN s
    ELSE IF s.request_age # None THEN s
    ELSE LET id == s.variable_id_queue[1]
             s1 == send_frame([s EXCEPT !.request_age = 0], "A", <<1, 0>>)
         IN  send_w_request(s1, <<54, id % 256, id \div 256>>)

\* a pump that does not look at the time of the last request
populate_unthrottled(s) ==
    IF Len(s.variable_id_queue) = 0 THEN s
    ELSE LET id == s.variable_id_queue[1]
             s1 == send_frame([s EXCEPT !.request_age = 0], "A", <<1, 0>>)
         IN  send_w_request(s1, <<54, id % 256, id \div 256>>)

\* a pump that leaves the address frame out
populate_without_address(s) ==
    IF Len(s.variable_id_queue) = 0 THEN s
    ELSE IF s.request_age # None /\ s.request_age < REQUEST_TIMEOUT_SECONDS THEN s
    ELSE LET id == s.variable_id_queue[1]
         IN  send_w_request([s EXCEPT !.request_age = 0], <<54, id % 256, id \div 256>>)

\* _populate_next_variable_info
populate_next_variable_info(s) ==
    IF Len(s.variable_id_queue) = 0 THEN s
    ELSE IF s.request_age # None /\ s.request_age < REQUEST_TIMEOUT_SECONDS THEN s
    ELSE LET id == s.variable_id_queue[1]
             s1 == send_frame([s EXCEPT !.request_age = 0], "A", <<1, 0>>)
         IN  send_w_request(s1, <<54, id % 256, id \div 256>>)

\* the override switched off
HACK_OVERRIDE_OFF == FALSE

HACK_OVERRIDE_AC_INVERTER_CURRENT_SIGNEDNESS == TRUE

\* a reply handler that stores the reply and does not ask for the next id
handle_variable_info_response_no_pump(s, msg) ==
    LET s1 == [s EXCEPT !.request_age = None]
    IN  IF Len(msg) >= 8 /\ B(msg, 2) = 142 /\ B(msg, 5) = 143
        THEN LET raw == B(msg, 3) + 256 * B(msg, 4)
                 sgn == raw >= 32768
                 mag == IF sgn THEN 65536 - raw ELSE raw
                 offset == B(msg, 6) + 256 * B(msg, 7)
                 id == s1.variable_id_queue[1]
                 signed == sgn \/ (HACK_OVERRIDE_AC_INVERTER_CURRENT_SIGNEDNESS /\ id = 3)
                 info == IF mag >= 16384
                         THEN [signed |-> signed, n |-> 1, d |-> 32768 - mag, offset |-> offset]
                         ELSE [signed |-> signed, n |-> mag, d |-> 1, offset |-> offset]
             IN  IF mag = 32768
                 THEN [s1 EXCEPT !.exc = TRUE]
                 ELSE [s1 EXCEPT !.variable_id_queue = Tail(@),
                                 !.variable_info = (id :> info) @@ @]
        ELSE s1

\* a reply handler that stores the reply and leaves its id in the queue
handle_variable_info_response_keeps_id(s, msg) ==
    LET s1 == [s EXCEPT !.request_age = None]
    IN  IF Len(msg) >= 8 /\ B(msg, 2) = 142 /\ B(msg, 5) = 143
        THEN LET raw == B(msg, 3) + 256 * B(msg, 4)
                 sgn == raw >= 32768
                 mag == IF sgn THEN 65536 - raw ELSE raw
                 offset == B(msg, 6) + 256 * B(msg, 7)
                 id == s1.variable_id_queue[1]
                 signed == sgn \/ (HACK_OVERRIDE_AC_INVERTER_CURRENT_SIGNEDNESS /\ id = 3)
                 info == IF mag >= 16384
                         THEN [signed |-> signed, n |-> 1, d |-> 32768 - mag, offset |-> offset]
                         ELSE [signed |-> signed, n |-> mag, d |-> 1, offset |-> offset]
             IN  IF mag = 32768
                 THEN [s1 EXCEPT !.exc = TRUE]
                 ELSE [s1 EXCEPT !.variable_info = (id :> info) @@ @]
        ELSE s1

\* _handle_variable_info_response; exc records an exception raised on the way
handle_variable_info_response(s, msg) ==
    LET s1 == [s EXCEPT !.request_age = None]
    IN  IF Len(msg) >= 8 /\ B(msg, 2) = 142 /\ B(msg, 5) = 143
        THEN LET raw == B(msg, 3) + 256 * B(msg, 4)
                 sgn == raw >= 32768
                 mag == IF sgn THEN 65536 - raw ELSE raw
                 offset == B(msg, 6) + 256 * B(msg, 7)
                 id == s1.variable_id_queue[1]
                 signed == sgn \/ (HACK_OVERRIDE_AC_INVERTER_CURRENT_SIGNEDNESS /\ id = 3)
                 info == IF mag >= 16384
                         THEN [signed |-> signed, n |-> 1, d |-> 32768 - mag, offset |-> offset]
                         ELSE [signed |-> signed, n |-> mag, d |-> 1, offset |-> offset]
             IN  IF mag = 32768
                 THEN [s1 EXCEPT !.exc = TRUE]      \* 1 / 0: ZeroDivisionError
                 ELSE populate_next_variable_info(
                          [s1 EXCEPT !.variable_id_queue = Tail(@),
                                     !.variable_info = (id :> info) @@ @])
        ELSE s1

\* a reply handler that does not compare the nonce
handle_w_response_any_letter(s, nonce, msg) ==
    IF ~s.w_completion THEN s
    ELSE handle_variable_info_response([s EXCEPT !.w_completion = FALSE], msg)

\* a reply handler that leaves the completion in place
handle_w_response_keeps_completion(s, nonce, msg) ==
    IF s.w_nonce # nonce \/ ~s.w_completion THEN s
    ELSE handle_variable_info_response(s, msg)

\* _handle_w_response
handle_w_response(s, nonce, msg) ==
    IF s.w_nonce # nonce \/ ~s.w_completion THEN s
    ELSE handle_variable_info_response([s EXCEPT !.w_completion = FALSE], msg)

----------------------------------------------------------------------------
(* Waiter table. *)

\* a match that leaves the predicate out
WaiterMatchesAnyPhase(s, w, response) ==
    /\ response.kind = w.cls
    /\ s.wResult[w.task] = NoResponse

\* isinstance(response, waiter[0]) and (waiter[1] is None or waiter[1](response))
\* and waiter[3] is None
WaiterMatches(s, w, response) ==
    /\ response.kind = w.cls
    /\ (w.phase = 0 \/ response.ac_phase = w.phase)
    /\ s.wResult[w.task] = NoResponse

\* the index of the waiter the scan of _deliver_response stops at, or 0
FirstMatch(s, response) ==
    LET hits == {i \in 1..Len(s.response_waiters) :
                     WaiterMatches(s, s.response_waiters[i], response)}
    IN  IF hits = {} THEN 0 ELSE CHOOSE i \in hits : \A j \in hits : i <= j

\* a delivery that leaves the handler out when a waiter took the response
deliver_response_waiter_only(s, response) ==
    LET i == FirstMatch(s, response)
    IN  IF i = 0 THEN [s EXCEPT !.delivered = Append(@, response)]
        ELSE LET t == s.response_waiters[i].task
             IN  [s EXCEPT !.wResult[t] = response, !.wEvent[t] = TRUE]

\* _deliver_response
deliver_response(s, response) ==
    LET i == FirstMatch(s, response)
        s1 == IF i = 0 THEN s
              ELSE LET t == s.response_waiters[i].task
                   IN  [s EXCEPT !.wResult[t] = response, !.wEvent[t] = TRUE]
    IN  [s1 EXCEPT !.delivered = Append(@, response)]

----------------------------------------------------------------------------
(* Response decoder. *)

DeviceStates == 0..9

\* version = msg[2] | msg[3] << 8 | msg[4] << 16 | msg[5] << 24, kept as the
\* pair <<low 24 bits, high 8 bits>>
VersionResponse(msg) ==
    [kind |-> "Version",
     version |-> <<B(msg, 2) + 256 * B(msg, 3) + 65536 * B(msg, 4), B(msg, 5)>>]

InterfaceResponse(msg) == [kind |-> "Interface", flags |-> B(msg, 2)]

LEDResponse(msg) == [kind |-> "LED", on |-> B(msg, 2), blink |-> B(msg, 3)]

StateResponse == [kind |-> "State"]

\* a product that takes the byte as a signed number
TimesSigned(v, m) == [n |-> v.n * (IF m >= 128 THEN m - 256 ELSE m), d |-> v.d]

\* value * msg[i]: the element of a bytes object is a number from 0 to 255
Times(v, m) == [n |-> v.n * m, d |-> v.d]

DCResponse(s, msg) ==
    [kind |-> "DC",
     dc_voltage |-> parse(s.variable_info[4], Slice(msg, 6, 8)),
     dc_current_to_inverter |-> parse(s.variable_info[5], Slice(msg, 8, 11)),
     dc_current_from_charger |-> parse(s.variable_info[5], Slice(msg, 11, 14)),
     ac_inverter_frequency |->
         period_to_frequency(parse(s.variable_info[7], Slice(msg, 14, 15)))]

\* the smaller of the two
MaxTakesSmaller(a, b) == IF a >= b THEN b ELSE a

Max(a, b) == IF a >= b THEN a ELSE b

ACResponse(s, msg) ==
    [kind |-> "AC",
     ac_phase |-> Max(9 - B(msg, 5), 1),
     ac_num_phases |-> Max(B(msg, 5) - 7, 0),
     device_state |-> B(msg, 4),
     ac_mains_voltage |-> parse(s.variable_info[0], Slice(msg, 6, 8)),
     ac_mains_current |-> Times(parse(s.variable_info[1], Slice(msg, 8, 10)), B(msg, 1)),
     ac_inverter_voltage |-> parse(s.variable_info[2], Slice(msg, 10, 12)),
     ac_inverter_current |-> Times(parse(s.variable_info[3], Slice(msg, 12, 14)), B(msg, 2)),
     ac_mains_frequency |->
         period_to_frequency(parse(s.variable_info[8], Slice(msg, 14, 15)))]

ConfigResponse(msg) ==
    [kind |-> "Config",
     last_active_ac_input |-> B(msg, 5) % 4,
     current_limit_overridden_by_panel |-> (B(msg, 5) \div 4) % 2 = 1,
     digital_multi_control_dedicated |-> (B(msg, 5) \div 8) % 2 = 1,
     num_ac_inputs |-> (B(msg, 5) \div 16) % 8,
     remote_panel_detected |-> B(msg, 5) >= 128,
     minimum_current_limit |-> [n |-> B(msg, 6) + 256 * B(msg, 7), d |-> 10],
     maximum_current_limit |-> [n |-> B(msg, 8) + 256 * B(msg, 9), d |-> 10],
     actual_current_limit |-> [n |-> B(msg, 10) + 256 * B(msg, 11), d |-> 10],
     switch_register |-> B(msg, 12)]

\* the Info branch of _handle_frame, taken when the id queue is empty
handle_info(s, msg) ==
    IF B(msg, 5) = 12 THEN deliver_response(s, DCResponse(s, msg))
    ELSE IF B(msg, 5) >= 5 /\ B(msg, 5) <= 11
    THEN IF B(msg, 4) \in DeviceStates
         THEN deliver_response(s, ACResponse(s, msg))
         ELSE [s EXCEPT !.exc = TRUE]           \* DeviceState(msg[4]): ValueError
    ELSE s

\* a Command Response branch that takes every other reply for a State reply
handle_command_default_state(s, msg) ==
    IF B(msg, 1) = Ord("V") /\ Len(msg) >= 6 THEN deliver_response(s, VersionResponse(msg))
    ELSE IF B(msg, 1) = Ord("H") /\ Len(msg) >= 3 THEN deliver_response(s, InterfaceResponse(msg))
    ELSE IF B(msg, 1) = Ord("L") /\ Len(msg) >= 4 THEN deliver_response(s, LEDResponse(msg))
    ELSE IF B(msg, 1) = Ord("W") THEN handle_w_response(s, 0, msg)
    ELSE IF B(msg, 1) = Ord("X") THEN handle_w_response(s, 1, msg)
    ELSE IF B(msg, 1) = Ord("Y") THEN handle_w_response(s, 2, msg)
    ELSE IF B(msg, 1) = Ord("Z") THEN handle_w_response(s, 3, msg)
    ELSE deliver_response(s, StateResponse)

\* the Command Response branch of _handle_frame
handle_command(s, msg) ==
    IF B(msg, 1) = Ord("V") /\ Len(msg) >= 6 THEN deliver_response(s, VersionResponse(msg))
    ELSE IF B(msg, 1) = Ord("H") /\ Len(msg) >= 3 THEN deliver_response(s, InterfaceResponse(msg))
    ELSE IF B(msg, 1) = Ord("L") /\ Len(msg) >= 4 THEN deliver_response(s, LEDResponse(msg))
    ELSE IF B(msg, 1) = Ord("S") THEN deliver_response(s, StateResponse)
    ELSE IF B(msg, 1) = Ord("W") THEN handle_w_response(s, 0, msg)
    ELSE IF B(msg, 1) = Ord("X") THEN handle_w_response(s, 1, msg)
    ELSE IF B(msg, 1) = Ord("Y") THEN handle_w_response(s, 2, msg)
    ELSE IF B(msg, 1) = Ord("Z") THEN handle_w_response(s, 3, msg)
    ELSE s

\* a decoder that lets DC frames through once only one id is missing
handle_frame_dc_early(s, msg) ==
    IF Len(msg) >= 2 /\ B(msg, 0) = 255 THEN handle_command(s, msg)
    ELSE IF Len(msg) >= 15 /\ B(msg, 0) = 32
    THEN IF Len(s.variable_id_queue) = 0
            \/ (Len(s.variable_id_queue) <= 1 /\ B(msg, 5) = 12)
         THEN handle_info(s, msg)
         ELSE populate_next_variable_info(s)
    ELSE IF Len(msg) >= 13 /\ B(msg, 0) = 65 THEN deliver_response(s, ConfigResponse(msg))
    ELSE s

\* _handle_frame
handle_frame(s, msg) ==
    IF Len(msg) >= 2 /\ B(msg, 0) = 255 THEN handle_command(s, msg)
    ELSE IF Len(msg) >= 15 /\ B(msg, 0) = 32
    THEN IF Len(s.variable_id_queue) = 0
         THEN handle_info(s, msg)
         ELSE populate_next_variable_info(s)
    ELSE IF Len(msg) >= 13 /\ B(msg, 0) = 65 THEN deliver_response(s, ConfigResponse(msg))
    ELSE s


----------------------------------------------------------------------------
(* The state the driver's synchronous code reads and writes, as one record. *)

Cur ==
    [writer |-> writer, w_nonce |-> w_nonce, w_completion |-> w_completion,
     variable_id_queue |-> variable_id_queue, variable_info |-> variable_info,
     request_age |-> request_age, response_waiters |-> response_waiters,
     wEvent |-> wEvent, wResult |-> wResult, tx |-> tx, delivered |-> <<>>,
     writeFails |-> writeFails, exc |-> FALSE]

Commit(s) ==
    /\ w_nonce' = s.w_nonce
    /\ w_completion' = s.w_completion
    /\ variable_id_queue' = s.variable_id_queue
    /\ variable_info' = s.variable_info
    /\ request_age' = s.request_age
    /\ wEvent' = s.wEvent
    /\ wResult' = s.wResult
    /\ tx' = s.tx
    /\ delivered' = s.delivered

\* what a callback makes of _ProbeHandler.result: on_response, on_idle, and
\* on_fault through FAULT_MAP
ProbeResultOf(event) ==
    IF event = "response" THEN "OK"
    ELSE IF event = "idle" THEN "UNRESPONSIVE"
    ELSE event

\* a callback of the handler; the Handler of a user is not modelled further,
\* a _ProbeHandler stores the result and sets finished
Tell(event) ==
    IF handler = "probe"
    THEN /\ result' = ProbeResultOf(event)
         /\ finished' = TRUE
         /\ first' = IF first = "none" THEN ProbeResultOf(event) ELSE first
    ELSE UNCHANGED <<result, finished, first>>

Reading == pc \in {"size", "body"}

\* afterIdle: "clean" after an on_idle that found no byte of an unfinished
\* frame read or buffered, "partial" after one that did; then, when a whole
\* frame with a typed response is the first thing to arrive, the value of
\* FrameAfter, and the value of DecodedAfter once on_response has followed;
\* "none" otherwise
FrameAfter == [clean |-> "clean-frame", partial |-> "partial-frame"]

DecodedAfter ==
    [f \in {"clean-frame", "partial-frame"} |->
        IF f = "clean-frame" THEN "clean-decoded" ELSE "partial-decoded"]

AwaitedFrame == {"clean-frame", "partial-frame"}

\* the reader is suspended in readexactly, waiting for bytes
ReaderBlocked ==
    \/ pc = "size" /\ rx = <<>>
    \/ pc = "body" /\ Len(rx) < size + 1

----------------------------------------------------------------------------
(* The state after VictronMK3(path); the driver fields hold the values     *)
(* _VictronMK3Driver.__init__ gives them.                                  *)

Created(c) ==
    /\ driver = FALSE
    /\ pc = "none"
    /\ ready = FALSE
    /\ startPc = "none"
    /\ stopPc = "none"
    /\ writer = "none"
    /\ closed = FALSE
    /\ w_nonce = 0
    /\ w_completion = FALSE
    /\ variable_id_queue = <<0, 1, 2, 3, 4, 5, 7, 8>>
    /\ variable_info = [i \in {} |-> 0]
    /\ request_age = None
    /\ response_waiters = <<>>
    /\ reqPc = [t \in Tasks |-> "idle"]
    /\ reqLeft = [t \in Tasks |-> 0]
    /\ wEvent = [t \in Tasks |-> FALSE]
    /\ wResult = [t \in Tasks |-> NoResponse]
    /\ reqReturn = [t \in Tasks |-> NoResponse]
    /\ reqLate = [t \in Tasks |-> FALSE]
    /\ rx = <<>>
    /\ size = 0
    /\ idleLeft = 0
    /\ tx = <<>>
    /\ devPending = <<>>
    /\ handled = <<>>
    /\ delivered = <<>>
    /\ idleCalls = 0
    /\ faults = <<>>
    /\ afterIdle = "none"
    /\ cause = <<>>
    /\ handler = "user"
    /\ result = "none"
    /\ finished = FALSE
    /\ first = "none"
    /\ call = c
    /\ restarts = 0
    /\ writeFails = FALSE

Init == Created(<<>>)

----------------------------------------------------------------------------
(* VictronMK3.start and the driver task. *)

\* start() up to its await: a new driver and its task
Start ==
    /\ pc = "none"
    /\ driver' = TRUE
    /\ pc' = "open"
    /\ ready' = FALSE
    /\ startPc' = "waiting"
    /\ UNCHANGED <<stopPc, writer, closed, w_nonce, w_completion, variable_id_queue,
                   variable_info, request_age, response_waiters, reqPc, reqLeft, wEvent,
                   wResult, reqReturn, reqLate, rx, size, idleLeft, tx, devPending, handled,
                   delivered, idleCalls, faults, afterIdle, cause, handler, result, finished,
                   first, call, restarts, writeFails>>

\* await ready.wait() returns and start() with it
StartReturn ==
    /\ startPc = "waiting"
    /\ ready
    /\ startPc' = "returned"
    /\ UNCHANGED <<driver, pc, ready, stopPc, writer, closed, w_nonce, w_completion,
                   variable_id_queue, variable_info, request_age, response_waiters, reqPc,
                   reqLeft, wEvent, wResult, reqReturn, reqLate, rx, size, idleLeft, tx,
                   devPending, handled, delivered, idleCalls, faults, afterIdle, cause,
                   handler, result, finished, first, call, restarts, writeFails>>

\* an open that pumps the variable-info request before the Version request
OpenOkPumpFirst ==
    /\ pc = "open"
    /\ LET s == send_frame(populate_next_variable_info([Cur EXCEPT !.writer = "open"]),
                           "V", <<>>)
       IN  Commit([s EXCEPT !.delivered = delivered])
    /\ writer' = "open"
    /\ ready' = TRUE
    /\ pc' = "size"
    /\ idleLeft' = IDLE_TIMEOUT_SECONDS
    /\ UNCHANGED <<driver, startPc, stopPc, closed, response_waiters, reqPc, reqLeft,
                   reqReturn, reqLate, rx, size, devPending, handled, idleCalls, faults,
                   afterIdle, cause, handler, result, finished, first, call, restarts,
                   writeFails>>

\* run(): the port opens; ready is set, the Version request and the first
\* variable-info request are written, and the loop arms its first timeout
OpenOk ==
    /\ pc = "open"
    /\ LET s == populate_next_variable_info(
                    send_frame([Cur EXCEPT !.writer = "open"], "V", <<>>))
       IN  Commit([s EXCEPT !.delivered = delivered])
    /\ writer' = "open"
    /\ ready' = TRUE
    /\ pc' = "size"
    /\ idleLeft' = IDLE_TIMEOUT_SECONDS
    /\ UNCHANGED <<driver, startPc, stopPc, closed, response_waiters, reqPc, reqLeft,
                   reqReturn, reqLate, rx, size, devPending, handled, idleCalls, faults,
                   afterIdle, cause, handler, result, finished, first, call, restarts,
                   writeFails>>

\* the fault run() reports when open_serial_connection raises
OpenFault(error) == IF error = "SerialException" THEN "INACCESSIBLE" ELSE "EXCEPTION"

\* a failed open that leaves the ready event alone
OpenFailNotReady(error) ==
    /\ pc = "open"
    /\ faults' = Append(faults, OpenFault(error))
    /\ cause' = <<"open", error>>
    /\ pc' = "done"
    /\ UNCHANGED <<driver, ready, startPc, stopPc, writer, closed, w_nonce, w_completion,
                   variable_id_queue, variable_info, request_age, response_waiters, reqPc,
                   reqLeft, wEvent, wResult, reqReturn, reqLate, rx, size, idleLeft, tx,
                   devPending, handled, delivered, idleCalls, afterIdle, handler, result,
                   finished, first, call, restarts, writeFails>>

\* run(): the port does not open; the writer was never set, so nothing is closed
OpenFail(error) ==
    /\ pc = "open"
    /\ ready' = TRUE
    /\ faults' = Append(faults, OpenFault(error))
    /\ Tell(OpenFault(error))
    /\ cause' = <<"open", error>>
    /\ pc' = "done"
    /\ UNCHANGED <<driver, startPc, stopPc, writer, closed, w_nonce, w_completion,
                   variable_id_queue, variable_info, request_age, response_waiters, reqPc,
                   reqLeft, wEvent, wResult, reqReturn, reqLate, rx, size, idleLeft, tx,
                   devPending, handled, delivered, idleCalls, afterIdle, handler, call,
                   restarts, writeFails>>

\* size = await reader.readexactly(1), at the top of a loop iteration
ReadSize ==
    /\ pc = "size"
    /\ rx # <<>>
    /\ size' = Head(rx)
    /\ rx' = Tail(rx)
    /\ pc' = "body"
    /\ handled' = <<>>
    /\ delivered' = <<>>
    /\ UNCHANGED <<driver, ready, startPc, stopPc, writer, closed, w_nonce, w_completion,
                   variable_id_queue, variable_info, request_age, response_waiters, reqPc,
                   reqLeft, wEvent, wResult, reqReturn, reqLate, idleLeft, tx, devPending,
                   idleCalls, faults, afterIdle, cause, handler, result, finished, first,
                   call, restarts, writeFails>>

\* msg = await reader.readexactly(size[0] + 1), the checksum test and
\* _handle_frame; an exception it raises is reported as Fault.EXCEPTION and
\* the finally clause closes the writer
ReadBody ==
    /\ pc = "body"
    /\ Len(rx) >= size + 1
    /\ LET msg == SubSeq(rx, 1, size + 1)
           s == handle_frame(Cur, msg)
       IN  /\ rx' = SubSeq(rx, size + 2, Len(rx))
           /\ size' = 0
           /\ IF FrameValid(size, msg)
              THEN /\ handled' = msg
                   /\ Commit(s)
                   /\ afterIdle' =
                          IF afterIdle \in {"clean", "partial"} THEN "none"
                          ELSE IF afterIdle \in AwaitedFrame /\ s.delivered # <<>>
                          THEN DecodedAfter[afterIdle]
                          ELSE afterIdle
                   /\ IF s.exc THEN Tell("EXCEPTION")
                      ELSE IF s.delivered # <<>> THEN Tell("response")
                      ELSE UNCHANGED <<result, finished, first>>
                   /\ IF s.exc
                      THEN /\ faults' = Append(faults, "EXCEPTION")
                           /\ cause' = <<"decode", "Exception">>
                           /\ writer' = "none"
                           /\ closed' = TRUE
                           /\ pc' = "closing"
                           /\ idleLeft' = 0
                      ELSE /\ pc' = "size"
                           /\ idleLeft' = IDLE_TIMEOUT_SECONDS
                           /\ UNCHANGED <<faults, cause, writer, closed>>
              ELSE /\ pc' = "size"
                   /\ idleLeft' = IDLE_TIMEOUT_SECONDS
                   /\ UNCHANGED <<w_nonce, w_completion, variable_id_queue,
                                  variable_info, request_age, wEvent, wResult, tx,
                                  delivered, faults, cause, writer, closed,
                                  handled, result, finished, first>>
                   /\ afterIdle' = IF afterIdle \in {"clean", "partial"}
                                   THEN "none" ELSE afterIdle
    /\ UNCHANGED <<driver, ready, startPc, stopPc, response_waiters, reqPc, reqLeft,
                   reqReturn, reqLate, devPending, idleCalls, handler, call, restarts,
                   writeFails>>

\* a timeout that does not tell the handler
IdleTimeoutSilent ==
    /\ Reading
    /\ idleLeft = 0
    /\ pc = "size" \/ ReaderBlocked
    /\ afterIdle' = IF afterIdle \in AwaitedFrame THEN afterIdle
                    ELSE IF pc = "size" /\ rx = <<>> THEN "clean" ELSE "partial"
    /\ pc' = "size"
    /\ size' = 0
    /\ idleLeft' = IDLE_TIMEOUT_SECONDS
    /\ UNCHANGED <<driver, ready, startPc, stopPc, writer, closed, w_nonce, w_completion,
                   variable_id_queue, variable_info, request_age, response_waiters, reqPc,
                   reqLeft, wEvent, wResult, reqReturn, reqLate, rx, tx, devPending, handled,
                   delivered, idleCalls, faults, cause, handler, result, finished, first,
                   call, restarts, writeFails>>

\* except TimeoutError: handler.on_idle(); continue. The deadline cancels the
\* task where it is suspended: readexactly(size[0] + 1) does not suspend when
\* the bytes are already buffered
IdleTimeout ==
    /\ Reading
    /\ idleLeft = 0
    /\ pc = "size" \/ ReaderBlocked
    /\ idleCalls' = (idleCalls + 1) % IdleMod
    /\ Tell("idle")
    /\ afterIdle' = IF afterIdle \in AwaitedFrame THEN afterIdle
                    ELSE IF pc = "size" /\ rx = <<>> THEN "clean" ELSE "partial"
    /\ pc' = "size"
    /\ size' = 0
    /\ idleLeft' = IDLE_TIMEOUT_SECONDS
    /\ UNCHANGED <<driver, ready, startPc, stopPc, writer, closed, w_nonce, w_completion,
                   variable_id_queue, variable_info, request_age, response_waiters, reqPc,
                   reqLeft, wEvent, wResult, reqReturn, reqLate, rx, tx, devPending, handled,
                   delivered, faults, cause, handler, call, restarts, writeFails>>

\* a read that reports every exception alike
ReadFaultAlwaysException(error) == "EXCEPTION"

\* the fault run() reports when readexactly raises
ReadFault(error) == IF error = "SerialException" THEN "IO_ERROR" ELSE "EXCEPTION"

\* readexactly raises (a serial error, or IncompleteReadError at end of stream):
\* handler.on_fault, then the finally clause closes the writer
ReadError(error) ==
    /\ Reading
    /\ ReaderBlocked
    /\ faults' = Append(faults, ReadFault(error))
    /\ Tell(ReadFault(error))
    /\ cause' = <<"read", error>>
    /\ writer' = "none"
    /\ closed' = TRUE
    /\ pc' = "closing"
    /\ size' = 0
    /\ idleLeft' = 0
    /\ UNCHANGED <<driver, ready, startPc, stopPc, w_nonce, w_completion, variable_id_queue,
                   variable_info, request_age, response_waiters, reqPc, reqLeft, wEvent,
                   wResult, reqReturn, reqLate, rx, tx, devPending, handled, delivered,
                   idleCalls, afterIdle, handler, call, restarts, writeFails>>

\* await writer.wait_closed() returns and run() ends
CloseDone ==
    /\ pc = "closing"
    /\ pc' = "done"
    /\ UNCHANGED <<driver, ready, startPc, stopPc, writer, closed, w_nonce, w_completion,
                   variable_id_queue, variable_info, request_age, response_waiters, reqPc,
                   reqLeft, wEvent, wResult, reqReturn, reqLate, rx, size, idleLeft, tx,
                   devPending, handled, delivered, idleCalls, faults, afterIdle, cause,
                   handler, result, finished, first, call, restarts, writeFails>>

----------------------------------------------------------------------------
(* VictronMK3.stop. *)

\* stop() up to its await: _driver = None and _driver_task.cancel()
StopCall ==
    /\ driver
    /\ stopPc = "none"
    /\ driver' = FALSE
    /\ stopPc' = "waiting"
    /\ pc' = IF pc \in {"open", "size", "body", "closing"} THEN "cancelled" ELSE pc
    /\ UNCHANGED <<ready, startPc, writer, closed, w_nonce, w_completion, variable_id_queue,
                   variable_info, request_age, response_waiters, reqPc, reqLeft, wEvent,
                   wResult, reqReturn, reqLate, rx, size, idleLeft, tx, devPending, handled,
                   delivered, idleCalls, faults, afterIdle, cause, handler, result, finished,
                   first, call, restarts, writeFails>>

\* a cancellation that is reported like an exception
CancelledAsException ==
    /\ pc = "cancelled"
    /\ ready' = TRUE
    /\ faults' = Append(faults, "EXCEPTION")
    /\ writer' = "none"
    /\ closed' = (closed \/ writer = "open")
    /\ pc' = "done"
    /\ size' = 0
    /\ idleLeft' = 0
    /\ UNCHANGED <<driver, startPc, stopPc, w_nonce, w_completion, variable_id_queue,
                   variable_info, request_age, response_waiters, reqPc, reqLeft, wEvent,
                   wResult, reqReturn, reqLate, rx, tx, devPending, handled, delivered,
                   idleCalls, afterIdle, cause, handler, result, finished, first, call,
                   restarts, writeFails>>

\* the driver task receives CancelledError: no except clause of run() takes it,
\* the finally clauses set ready and close the writer
Cancelled ==
    /\ pc = "cancelled"
    /\ ready' = TRUE
    /\ writer' = "none"
    /\ closed' = (closed \/ writer = "open")
    /\ pc' = "done"
    /\ size' = 0
    /\ idleLeft' = 0
    /\ UNCHANGED <<driver, startPc, stopPc, w_nonce, w_completion, variable_id_queue,
                   variable_info, request_age, response_waiters, reqPc, reqLeft, wEvent,
                   wResult, reqReturn, reqLate, rx, tx, devPending, handled, delivered,
                   idleCalls, faults, afterIdle, cause, handler, result, finished, first,
                   call, restarts, writeFails>>

\* await self._driver_task returns; _driver_task = None
StopReturn ==
    /\ stopPc = "waiting"
    /\ pc = "done"
    /\ stopPc' = "none"
    /\ pc' = "stopped"
    /\ UNCHANGED <<driver, ready, startPc, writer, closed, w_nonce, w_completion,
                   variable_id_queue, variable_info, request_age, response_waiters, reqPc,
                   reqLeft, wEvent, wResult, reqReturn, reqLate, rx, size, idleLeft, tx,
                   devPending, handled, delivered, idleCalls, faults, afterIdle, cause,
                   handler, result, finished, first, call, restarts, writeFails>>

----------------------------------------------------------------------------
(* Request methods. *)

\* what a request method sends and waits for
ReqVersion ==
    [command |-> "V", data |-> <<>>, cls |-> "Version", phase |-> 0,
     timeout |-> REQUEST_TIMEOUT_SECONDS]

ReqDC ==
    [command |-> "F", data |-> <<0>>, cls |-> "DC", phase |-> 0,
     timeout |-> REQUEST_TIMEOUT_SECONDS]

ReqAC(phase) ==
    [command |-> "F", data |-> <<phase>>, cls |-> "AC", phase |-> phase,
     timeout |-> REQUEST_TIMEOUT_SECONDS]

Min(a, b) == IF a <= b THEN a ELSE b

\* SwitchState
SwitchStates == 1..4

\* a current limit in amps is <<>> for None, or <<sign, whole amps, hundredths>>
\* int(current_limit * 10); every product above 0x7FFF is given as 0x8000 to
\* stay inside the model checker's integers
TimesTen(c) == IF c[2] > 3276 THEN 32768 ELSE 10 * c[2] + (c[3] \div 10)

\* a value that is not held at 0x7FFF
StateValueUnclamped(c) ==
    IF c = <<>> THEN 32768
    ELSE IF c[1] < 0 \/ (c[2] = 0 /\ c[3] = 0) THEN 0
    ELSE TimesTen(c)

\* the value send_state_request encodes for current_limit
StateValue(c) ==
    IF c = <<>> THEN 32768
    ELSE IF c[1] < 0 \/ (c[2] = 0 /\ c[3] = 0) THEN 0
    ELSE Min(TimesTen(c), 32767)

ReqState(switch_state, current_limit) ==
    [command |-> "S",
     data |-> <<switch_state, StateValue(current_limit) % 256,
                StateValue(current_limit) \div 256, 1, 128>>,
     cls |-> "State", phase |-> 0, timeout |-> REQUEST_TIMEOUT_SECONDS]

\* a finally clause that leaves the waiter in the table
RemoveWaiterLeaves(ws, t) == ws

\* the table without the waiter of task t: self._response_waiters.remove(waiter)
RECURSIVE RemoveWaiter(_, _)
RemoveWaiter(ws, t) ==
    IF ws = <<>> THEN <<>>
    ELSE IF Head(ws).task = t THEN Tail(ws)
    ELSE <<Head(ws)>> \o RemoveWaiter(Tail(ws), t)

\* what a request method leaves its caller with when an exception comes out
\* of it
Raised == [kind |-> "Exception"]

\* the session is Terminated: no driver (before start(), after stop()), or
\* the driver has reported a fault
Terminated == ~driver \/ faults # <<>>

\* a request method that goes to the driver whether or not there is one
RequestWithoutDriverCheck(t, r) ==
    /\ reqPc[t] = "idle"
    /\ \A u \in Tasks : u < t => reqPc[u] # "idle"
    /\ reqLate' = [reqLate EXCEPT ![t] = Terminated]
    /\ tx' = send_frame(Cur, r.command, r.data).tx
    /\ response_waiters' =
           Append(response_waiters, [task |-> t, cls |-> r.cls, phase |-> r.phase])
    /\ reqPc' = [reqPc EXCEPT ![t] = "waiting"]
    /\ reqLeft' = [reqLeft EXCEPT ![t] = r.timeout]
    /\ reqReturn' = [reqReturn EXCEPT ![t] = NoResponse]
    /\ UNCHANGED <<driver, pc, ready, startPc, stopPc, writer, closed, w_nonce, w_completion,
                   variable_id_queue, variable_info, request_age, wEvent, wResult, rx, size,
                   idleLeft, devPending, handled, delivered, idleCalls, faults, afterIdle,
                   cause, handler, result, finished, first, call, restarts, writeFails>>

\* a caller task invokes a request method of VictronMK3 (the callers take the
\* first task that is free): nothing happens when _driver is None; otherwise
\* the frame is written (if the writer is there) and _wait_for_response
\* appends the waiter and arms its timeout
Request(t, r) ==
    /\ reqPc[t] = "idle"
    /\ \A u \in Tasks : u < t => reqPc[u] # "idle"
    /\ reqLate' = [reqLate EXCEPT ![t] = Terminated]
    /\ IF driver
       THEN LET s == send_frame(Cur, r.command, r.data)
            IN  IF s.exc
                THEN /\ reqReturn' = [reqReturn EXCEPT ![t] = Raised]
                     /\ UNCHANGED <<tx, response_waiters, reqPc, reqLeft>>
                ELSE /\ tx' = s.tx
                     /\ response_waiters' =
                            Append(response_waiters,
                                   [task |-> t, cls |-> r.cls, phase |-> r.phase])
                     /\ reqPc' = [reqPc EXCEPT ![t] = "waiting"]
                     /\ reqLeft' = [reqLeft EXCEPT ![t] = r.timeout]
                     /\ reqReturn' = [reqReturn EXCEPT ![t] = NoResponse]
       ELSE /\ reqReturn' = [reqReturn EXCEPT ![t] = NoResponse]
            /\ UNCHANGED <<tx, response_waiters, reqPc, reqLeft>>
    /\ UNCHANGED <<driver, pc, ready, startPc, stopPc, writer, closed, w_nonce, w_completion,
                   variable_id_queue, variable_info, request_age, wEvent, wResult, rx, size,
                   idleLeft, devPending, handled, delivered, idleCalls, faults, afterIdle,
                   cause, handler, result, finished, first, call, restarts, writeFails>>

\* a deadline that passes only while the driver task reads
ReqTimerWhileReading(t) ==
    /\ Reading
    /\ reqPc[t] = "waiting"
    /\ reqLeft[t] = 0
    /\ reqPc' = [reqPc EXCEPT ![t] = "timedout"]
    /\ UNCHANGED <<driver, pc, ready, startPc, stopPc, writer, closed, w_nonce, w_completion,
                   variable_id_queue, variable_info, request_age, response_waiters, reqLeft,
                   wEvent, wResult, reqReturn, reqLate, rx, size, idleLeft, tx, devPending,
                   handled, delivered, idleCalls, faults, afterIdle, cause, handler, result,
                   finished, first, call, restarts, writeFails>>

\* the deadline of asyncio.timeout(timeout) passes: the waiting task is cancelled
ReqTimer(t) ==
    /\ reqPc[t] = "waiting"
    /\ reqLeft[t] = 0
    /\ reqPc' = [reqPc EXCEPT ![t] = "timedout"]
    /\ UNCHANGED <<driver, pc, ready, startPc, stopPc, writer, closed, w_nonce, w_completion,
                   variable_id_queue, variable_info, request_age, response_waiters, reqLeft,
                   wEvent, wResult, reqReturn, reqLate, rx, size, idleLeft, tx, devPending,
                   handled, delivered, idleCalls, faults, afterIdle, cause, handler, result,
                   finished, first, call, restarts, writeFails>>

\* a wait that lets the TimeoutError through to the caller
WaitResultRaising(t) ==
    IF reqPc[t] = "timedout" THEN [kind |-> "TimeoutError"] ELSE wResult[t]

\* what _wait_for_response returns when the task runs again
WaitResult(t) == IF reqPc[t] = "timedout" THEN NoResponse ELSE wResult[t]

\* the task of a request method runs again, after its event was set or its
\* timeout cancelled it; the finally clause removes the waiter
Resume(t) ==
    /\ \/ reqPc[t] = "timedout"
       \/ reqPc[t] = "waiting" /\ wEvent[t]
    /\ reqReturn' = [reqReturn EXCEPT ![t] = WaitResult(t)]
    /\ response_waiters' = RemoveWaiter(response_waiters, t)
    /\ reqPc' = [reqPc EXCEPT ![t] = "idle"]
    /\ reqLeft' = [reqLeft EXCEPT ![t] = 0]
    /\ wEvent' = [wEvent EXCEPT ![t] = FALSE]
    /\ wResult' = [wResult EXCEPT ![t] = NoResponse]
    /\ UNCHANGED <<driver, pc, ready, startPc, stopPc, writer, closed, w_nonce, w_completion,
                   variable_id_queue, variable_info, request_age, reqLate, rx, size,
                   idleLeft, tx, devPending, handled, delivered, idleCalls, faults,
                   afterIdle, cause, handler, result, finished, first, call, restarts,
                   writeFails>>

----------------------------------------------------------------------------
(* Time and the device. *)

\* some task of the program can run, or written bytes are still on their way
Runnable ==
    \/ Reading /\ (idleLeft = 0 \/ ~ReaderBlocked)
    \/ startPc = "waiting" /\ ready
    \/ startPc = "returned" /\ finished /\ stopPc = "none" /\ driver
    \/ pc \in {"cancelled", "closing"}
    \/ tx # <<>>
    \/ \E t \in Tasks : \/ reqPc[t] \in {"timedout", "cancelling"}
                        \/ reqPc[t] = "waiting" /\ (reqLeft[t] = 0 \/ wEvent[t])

\* half a second passes while every task is suspended
Tick ==
    /\ ~Runnable
    /\ idleLeft' = IF Reading THEN idleLeft - 1 ELSE idleLeft
    /\ reqLeft' = [t \in Tasks |-> IF reqPc[t] = "waiting" THEN reqLeft[t] - 1 ELSE reqLeft[t]]
    /\ request_age' = IF request_age = None THEN None
                      ELSE Min(request_age + 1, MaxAge)
    /\ UNCHANGED <<driver, pc, ready, startPc, stopPc, writer, closed, w_nonce, w_completion,
                   variable_id_queue, variable_info, response_waiters, reqPc, wEvent,
                   wResult, reqReturn, reqLate, rx, size, tx, devPending, handled, delivered,
                   idleCalls, faults, afterIdle, cause, handler, result, finished, first,
                   call, restarts, writeFails>>

\* a frame as the device puts it on the wire: length, payload, checksum
DevFrame(payload) ==
    LET head == <<Len(payload)>> \o payload
    IN  head \o <<Checksum(head)>>

FrVersion == DevFrame(<<255, 86, 1, 2, 3, 4, 0>>)
FrUnknown == DevFrame(<<255, 81, 0>>)

\* an AC Info frame: multipliers m1, m2, device state ds, subtype sub
FrAC(m1, m2, ds, sub) ==
    DevFrame(<<32, m1, m2, 0, ds, sub, 216, 89, 10, 0, 216, 89, 254, 255, 20>>)

FrDC == DevFrame(<<32, 0, 0, 0, 0, 12, 136, 19, 5, 0, 0, 3, 0, 0, 20>>)

\* a variable-info reply: letter, raw scale field, offset field
FrVarInfo(letter, raw, offset) ==
    DevFrame(<<255, Ord(letter), 142, raw % 256, raw \div 256, 143,
               offset % 256, offset \div 256>>)

\* a variable-info reply without the 0x8E / 0x8F markers
FrVarInfoBad(letter) == DevFrame(<<255, Ord(letter), 145, 0, 0, 0, 0, 0>>)

\* the scale field the device reports for a variable id
DeviceScale(id) ==
    CASE id \in {0, 2, 3, 4} -> 32668       \* unsigned, 1/100
      [] id \in {1, 5} -> 32868             \* signed, 1/100
      [] OTHER -> 1                         \* unsigned, 1

\* whether a written frame is a W-family request
IsWRequest(f) == Len(f) = 7 /\ f[3] \in {87, 88, 89, 90}

\* the W-family requests among written frames, as <<letter index, id>>
RECURSIVE WRequests(_)
WRequests(frames) ==
    IF frames = <<>> THEN <<>>
    ELSE LET f == Head(frames)
         IN  (IF IsWRequest(f) THEN <<<<f[3] - 87, f[5] + 256 * f[6]>>>> ELSE <<>>)
                 \o WRequests(Tail(frames))

\* the last n elements of a sequence
LastN(s, n) == IF Len(s) <= n THEN s ELSE SubSeq(s, Len(s) - n + 1, Len(s))

\* the device takes the bytes written to it; it keeps the latest MaxPending
\* variable-info requests to answer them in turn
DeviceReceive ==
    /\ tx # <<>>
    /\ tx' = <<>>
    /\ devPending' = LastN(devPending \o WRequests(tx), MaxPending)
    /\ UNCHANGED <<driver, pc, ready, startPc, stopPc, writer, closed, w_nonce, w_completion,
                   variable_id_queue, variable_info, request_age, response_waiters, reqPc,
                   reqLeft, wEvent, wResult, reqReturn, reqLate, rx, size, idleLeft, handled,
                   delivered, idleCalls, faults, afterIdle, cause, handler, result, finished,
                   first, call, restarts, writeFails>>

\* the device answers its oldest variable-info request: the letter of the
\* request, and its own metadata for the id asked for
FeedReply ==
    /\ pc = "size"
    /\ rx = <<>>
    /\ tx = <<>>
    /\ devPending # <<>>
    /\ rx' = FrVarInfo(W_LETTERS[Head(devPending)[1] + 1],
                       DeviceScale(Head(devPending)[2]), Head(devPending)[2])
    /\ devPending' = Tail(devPending)
    /\ UNCHANGED <<driver, pc, ready, startPc, stopPc, writer, closed, w_nonce, w_completion,
                   variable_id_queue, variable_info, request_age, response_waiters, reqPc,
                   reqLeft, wEvent, wResult, reqReturn, reqLate, size, idleLeft, tx, handled,
                   delivered, idleCalls, faults, afterIdle, cause, handler, result, finished,
                   first, call, restarts, writeFails>>

\* the bytes are a whole valid frame that the decoder, as the driver stands,
\* maps to a typed response
Typed(bytes) ==
    /\ bytes # <<>>
    /\ FrameValid(Head(bytes), Tail(bytes))
    /\ handle_frame(Cur, Tail(bytes)).delivered # <<>>

\* bytes arrive from the device while the reader waits for them; the device
\* has taken what was written to it before it sends
Feed(bytes) ==
    /\ ReaderBlocked
    /\ tx = <<>>
    /\ Len(rx) + Len(bytes) <= MaxBuffered
    /\ rx' = rx \o bytes
    /\ afterIdle' = IF afterIdle \in {"clean", "partial"}
                    THEN IF Typed(bytes) THEN FrameAfter[afterIdle] ELSE "none"
                    ELSE afterIdle
    /\ UNCHANGED <<driver, pc, ready, startPc, stopPc, writer, closed, w_nonce, w_completion,
                   variable_id_queue, variable_info, request_age, response_waiters, reqPc,
                   reqLeft, wEvent, wResult, reqReturn, reqLate, size, idleLeft, tx,
                   devPending, handled, delivered, idleCalls, faults, cause, handler, result,
                   finished, first, call, restarts, writeFails>>

\* what the device sends of its own accord while the registry is filled
DeviceFrames == {FrVersion, FrAC(1, 1, 9, 8), FrDC, FrVarInfoBad("X")}

Next ==
    \/ Start
    \/ OpenOk
    \/ StartReturn
    \/ ReadSize
    \/ ReadBody
    \/ IdleTimeout
    \/ Tick
    \/ DeviceReceive
    \/ FeedReply
    \/ \E f \in DeviceFrames : Feed(f)

Spec == Init /\ [][Next]_vars

----------------------------------------------------------------------------
(* A session whose registry is complete. *)

\* the driver's fields after __init__, with the port open
Fresh ==
    [writer |-> "open", w_nonce |-> 0, w_completion |-> FALSE,
     variable_id_queue |-> <<0, 1, 2, 3, 4, 5, 7, 8>>,
     variable_info |-> [i \in {} |-> 0], request_age |-> None,
     response_waiters |-> <<>>, wEvent |-> [t \in Tasks |-> FALSE],
     wResult |-> [t \in Tasks |-> NoResponse], tx |-> <<>>, delivered |-> <<>>,
     writeFails |-> FALSE, exc |-> FALSE]

\* the msg of a frame on the wire: without its length byte
Body(frame) == Tail(frame)

\* the driver after the device answered every variable-info request in turn
RECURSIVE Bootstrapped(_)
Bootstrapped(s) ==
    IF s.variable_id_queue = <<>> THEN s
    ELSE LET id == s.variable_id_queue[1]
         IN  Bootstrapped(handle_frame(
                 s, Body(FrVarInfo(W_LETTERS[s.w_nonce + 1], DeviceScale(id), id))))

Ready == Bootstrapped(populate_next_variable_info(send_frame(Fresh, "V", <<>>)))

\* a running session after the variable-info exchange is over and the
\* device has taken every byte written to it; c is the input under test
Running(c) ==
    /\ driver = TRUE
    /\ pc = "size"
    /\ ready = TRUE
    /\ startPc = "returned"
    /\ stopPc = "none"
    /\ writer = "open"
    /\ closed = FALSE
    /\ w_nonce = Ready.w_nonce
    /\ w_completion = Ready.w_completion
    /\ variable_id_queue = Ready.variable_id_queue
    /\ variable_info = Ready.variable_info
    /\ request_age = Ready.request_age
    /\ response_waiters = <<>>
    /\ reqPc = [t \in Tasks |-> "idle"]
    /\ reqLeft = [t \in Tasks |-> 0]
    /\ wEvent = [t \in Tasks |-> FALSE]
    /\ wResult = [t \in Tasks |-> NoResponse]
    /\ reqReturn = [t \in Tasks |-> NoResponse]
    /\ reqLate = [t \in Tasks |-> FALSE]
    /\ rx = <<>>
    /\ size = 0
    /\ idleLeft = IDLE_TIMEOUT_SECONDS
    /\ tx = <<>>
    /\ devPending = <<>>
    /\ handled = <<>>
    /\ delivered = <<>>
    /\ idleCalls = 0
    /\ faults = <<>>
    /\ afterIdle = "none"
    /\ cause = <<>>
    /\ handler = "user"
    /\ result = "none"
    /\ finished = FALSE
    /\ first = "none"
    /\ call = c
    /\ restarts = 0
    /\ writeFails = FALSE

InitReady == Running(<<>>)

\* what the device sends during the session
SessionFrames == {FrVersion, FrAC(1, 1, 9, 8), FrAC(1, 1, 9, 7), FrDC, FrUnknown}

\* the requests the callers make
Requests == {ReqVersion, ReqAC(1), ReqAC(2)}

NextSession ==
    \/ ReadSize
    \/ ReadBody
    \/ IdleTimeout
    \/ \E t \in Tasks : \E r \in Requests : Request(t, r)
    \/ \E t \in Tasks : ReqTimer(t)
    \/ \E t \in Tasks : Resume(t)
    \/ Tick
    \/ DeviceReceive
    \/ \E f \in SessionFrames : Feed(f)

SpecSession == InitReady /\ [][NextSession]_vars

----------------------------------------------------------------------------
(* Silence on the line. *)

\* what the device sends: a Version frame, or only the first two bytes of a
\* frame
IdleFrames == {FrVersion, <<3, 8>>}

NextIdle ==
    \/ Start
    \/ OpenOk
    \/ StartReturn
    \/ ReadSize
    \/ ReadBody
    \/ IdleTimeout
    \/ Tick
    \/ DeviceReceive
    \/ \E f \in IdleFrames : Feed(f)

SpecIdle == Init /\ [][NextIdle]_vars

----------------------------------------------------------------------------
(* The life of a session: opening, faults, stop. *)

\* what the device sends: a Version frame, and a variable-info reply whose
\* scale field is 0x8000
LifeFrames == {FrVersion, FrVarInfo("X", 32768, 0)}

LifeRequests == {ReqVersion}

OpenErrors == {"SerialException", "OSError"}

ReadErrors == {"SerialException", "IncompleteReadError"}

NextLife ==
    \/ Start
    \/ OpenOk
    \/ StartReturn
    \/ \E error \in OpenErrors : OpenFail(error)
    \/ ReadSize
    \/ ReadBody
    \/ IdleTimeout
    \/ \E error \in ReadErrors : ReadError(error)
    \/ CloseDone
    \/ StopCall
    \/ Cancelled
    \/ StopReturn
    \/ \E t \in Tasks : \E r \in LifeRequests : Request(t, r)
    \/ \E t \in Tasks : ReqTimer(t)
    \/ \E t \in Tasks : Resume(t)
    \/ Tick
    \/ DeviceReceive
    \/ \E f \in LifeFrames : Feed(f)

SpecLife == Init /\ [][NextLife]_vars

\* time passes, and every task that can run does run
Fairness ==
    /\ SF_vars(Tick)
    /\ []<>(pc # "open")       \* open_serial_connection returns or raises
    /\ WF_vars(StartReturn)
    /\ WF_vars(ReadSize)
    /\ WF_vars(ReadBody)
    /\ WF_vars(IdleTimeout)
    /\ WF_vars(CloseDone)
    /\ WF_vars(Cancelled)
    /\ WF_vars(DeviceReceive)
    /\ \A t \in Tasks : WF_vars(ReqTimer(t))
    /\ \A t \in Tasks : WF_vars(Resume(t))

SpecLifeFair == SpecLife /\ Fairness

----------------------------------------------------------------------------
(* State requests. *)

\* the current limits the callers ask for: None, -5, 0, 0.05, 12.3, 12.39, 16,
\* 3276.7, 3276.8 and 1e9 amps
Limits ==
    {<<>>, <<-1, 5, 0>>, <<1, 0, 0>>, <<1, 0, 5>>, <<1, 12, 30>>, <<1, 12, 39>>,
     <<1, 16, 0>>, <<1, 3276, 70>>, <<1, 3276, 80>>, <<1, 1000000000, 0>>}

\* the device's reply to a State request
FrState == DevFrame(<<255, 83>>)

\* the callers' arguments: a switch state and a current limit
InitState == \E s \in SwitchStates : \E c \in Limits : Running(<<s, c>>)

\* a caller invokes send_state_request(switch_state, current_limit)
StateCall(t) == Request(t, ReqState(call[1], call[2]))

NextState ==
    \/ \E t \in Tasks : StateCall(t)
    \/ \E t \in Tasks : ReqTimer(t)
    \/ \E t \in Tasks : Resume(t)
    \/ ReadSize
    \/ ReadBody
    \/ IdleTimeout
    \/ Tick
    \/ DeviceReceive
    \/ Feed(FrState)

SpecState == InitState /\ [][NextState]_vars

----------------------------------------------------------------------------
(* probe(path). *)

\* probe() up to its first await: a _ProbeHandler, a VictronMK3, and start()
\* up to its await
ProbeCall ==
    /\ pc = "none"
    /\ handler = "user"
    /\ handler' = "probe"
    /\ result' = "INACCESSIBLE"
    /\ finished' = FALSE
    /\ first' = "none"
    /\ driver' = TRUE
    /\ pc' = "open"
    /\ ready' = FALSE
    /\ startPc' = "waiting"
    /\ UNCHANGED <<stopPc, writer, closed, w_nonce, w_completion, variable_id_queue,
                   variable_info, request_age, response_waiters, reqPc, reqLeft, wEvent,
                   wResult, reqReturn, reqLate, rx, size, idleLeft, tx, devPending, handled,
                   delivered, idleCalls, faults, afterIdle, cause, call, restarts, writeFails>>

\* the task of probe() has been woken and runs before the event loop looks at
\* the transport again
ProbeRuns ==
    /\ handler = "probe"
    /\ \/ startPc = "waiting" /\ ready
       \/ startPc = "returned" /\ finished /\ stopPc = "none" /\ driver

\* the driver task is suspended: in readexactly without the bytes it needs,
\* in wait_closed, or it has ended
DriverSuspended == (Reading /\ ReaderBlocked) \/ pc \in {"closing", "done"}

\* await handler.finished.wait() returns, and probe() goes into stop() up to
\* its await; the task of probe() runs when the driver task has suspended
ProbeStop ==
    /\ handler = "probe"
    /\ startPc = "returned"
    /\ finished
    /\ DriverSuspended
    /\ StopCall

\* stop() returns and probe() returns handler.result
ProbeReturn == handler = "probe" /\ StopReturn

ProbeFeed(bytes) == ~ProbeRuns /\ Feed(bytes)

ProbeReadError(error) == ~ProbeRuns /\ ReadError(error)

\* what the device sends: a Version frame, a frame the decoder ignores, and a
\* Version frame with, in the same read, a variable-info reply whose scale
\* field is 0x8000
ProbeFrames == {FrVersion, FrUnknown, FrVersion \o FrVarInfo("X", 32768, 0)}

NextProbe ==
    \/ ProbeCall
    \/ OpenOk
    \/ \E error \in OpenErrors : OpenFail(error)
    \/ StartReturn
    \/ ReadSize
    \/ ReadBody
    \/ IdleTimeout
    \/ \E error \in ReadErrors : ProbeReadError(error)
    \/ CloseDone
    \/ ProbeStop
    \/ Cancelled
    \/ ProbeReturn
    \/ Tick
    \/ DeviceReceive
    \/ \E f \in ProbeFrames : ProbeFeed(f)

SpecProbe == Init /\ [][NextProbe]_vars

----------------------------------------------------------------------------
(* The codec: a frame written by _send_frame, read back by the loop. *)

Letters == {"V", "L", "F", "S", "H", "A", "W", "X", "Y", "Z"}

\* n bytes b
Rep(n, b) == [i \in 1..n |-> b]

Payloads ==
    {<<>>, <<0>>, <<255>>, <<1, 0>>, <<54, 3, 0>>, <<1, 2, 3, 4, 0>>,
     Rep(MaxPayload, 0), Rep(MaxPayload, 255), Rep(MaxPayload, 1),
     Rep(MaxPayload - 1, 7), Rep(MaxPayload, 128)}

InitCodec ==
    \E c \in Letters : \E p \in Payloads : Running(<<c, p, "pending">>)

\* the call _send_frame(command, data) under test
SendFrame ==
    /\ call # <<>>
    /\ call[3] = "pending"
    /\ tx' = send_frame(Cur, call[1], call[2]).tx
    /\ call' = <<call[1], call[2], "written">>
    /\ UNCHANGED <<driver, pc, ready, startPc, stopPc, writer, closed, w_nonce, w_completion,
                   variable_id_queue, variable_info, request_age, response_waiters, reqPc,
                   reqLeft, wEvent, wResult, reqReturn, reqLate, rx, size, idleLeft,
                   devPending, handled, delivered, idleCalls, faults, afterIdle, cause,
                   handler, result, finished, first, restarts, writeFails>>

\* the written bytes are presented to the loop's inbound framing
Loopback ==
    /\ tx # <<>>
    /\ pc = "size"
    /\ rx = <<>>
    /\ rx' = Head(tx)
    /\ tx' = Tail(tx)
    /\ UNCHANGED <<driver, pc, ready, startPc, stopPc, writer, closed, w_nonce, w_completion,
                   variable_id_queue, variable_info, request_age, response_waiters, reqPc,
                   reqLeft, wEvent, wResult, reqReturn, reqLate, size, idleLeft, devPending,
                   handled, delivered, idleCalls, faults, afterIdle, cause, handler, result,
                   finished, first, call, restarts, writeFails>>

NextCodec ==
    \/ SendFrame
    \/ Loopback
    \/ ReadSize
    \/ ReadBody

SpecCodec == InitCodec /\ [][NextCodec]_vars

----------------------------------------------------------------------------
(* Corrupted frames. *)

\* byte b with bit k inverted
FlipByte(b, k) ==
    LET w == IF k = 0 THEN 1 ELSE IF k = 1 THEN 2 ELSE IF k = 2 THEN 4
             ELSE IF k = 3 THEN 8 ELSE IF k = 4 THEN 16 ELSE IF k = 5 THEN 32
             ELSE IF k = 6 THEN 64 ELSE 128
    IN  IF (b \div w) % 2 = 1 THEN b - w ELSE b + w

\* the frame with bit k inverted: bit k % 8 of byte k \div 8
Flip(frame, k) ==
    [i \in 1..Len(frame) |->
        IF i = (k \div 8) + 1 THEN FlipByte(frame[i], k % 8) ELSE frame[i]]

\* a Version frame whose last payload byte would close a shorter frame
FrVersionShort == DevFrame(<<255, 86, 165, 0, 0, 0, 0>>)

FlipFrames == {FrVersion, FrVersionShort, FrAC(1, 1, 9, 8), FrDC}

FlipRequests == {ReqVersion, ReqAC(1), ReqDC}

\* the device's frame reaches the reader with one bit inverted
FeedFlipped(f, k) ==
    /\ pc = "size"
    /\ rx = <<>>
    /\ tx = <<>>
    /\ rx' = Flip(f, k)
    /\ call' = <<f, k>>
    /\ UNCHANGED <<driver, pc, ready, startPc, stopPc, writer, closed, w_nonce, w_completion,
                   variable_id_queue, variable_info, request_age, response_waiters, reqPc,
                   reqLeft, wEvent, wResult, reqReturn, reqLate, size, idleLeft, tx,
                   devPending, handled, delivered, idleCalls, faults, afterIdle, cause,
                   handler, result, finished, first, restarts, writeFails>>

NextFlip ==
    \/ \E t \in Tasks : \E r \in FlipRequests : Request(t, r)
    \/ DeviceReceive
    \/ \E f \in FlipFrames : \E k \in 0..(8 * Len(f) - 1) : FeedFlipped(f, k)
    \/ ReadSize
    \/ ReadBody

SpecFlip == InitReady /\ [][NextFlip]_vars

----------------------------------------------------------------------------
(* A slow device: replies that are late, or lost. *)

\* the first n elements of a sequence
FirstN(s, n) == IF Len(s) <= n THEN s ELSE SubSeq(s, 1, n)

\* the slow device takes the bytes written to it; it holds up to MaxDelayed
\* variable-info requests to answer them in turn, and while it holds that
\* many it ignores the requests that come
DeviceReceiveSlow ==
    /\ tx # <<>>
    /\ tx' = <<>>
    /\ devPending' = FirstN(devPending \o WRequests(tx), MaxDelayed)
    /\ UNCHANGED <<driver, pc, ready, startPc, stopPc, writer, closed, w_nonce, w_completion,
                   variable_id_queue, variable_info, request_age, response_waiters, reqPc,
                   reqLeft, wEvent, wResult, reqReturn, reqLate, rx, size, idleLeft, handled,
                   delivered, idleCalls, faults, afterIdle, cause, handler, result, finished,
                   first, call, restarts, writeFails>>

\* the reply to the device's oldest variable-info request is lost
LoseReply ==
    /\ pc = "size"
    /\ rx = <<>>
    /\ tx = <<>>
    /\ devPending # <<>>
    /\ devPending' = Tail(devPending)
    /\ UNCHANGED <<driver, pc, ready, startPc, stopPc, writer, closed, w_nonce, w_completion,
                   variable_id_queue, variable_info, request_age, response_waiters, reqPc,
                   reqLeft, wEvent, wResult, reqReturn, reqLate, rx, size, idleLeft, tx,
                   handled, delivered, idleCalls, faults, afterIdle, cause, handler, result,
                   finished, first, call, restarts, writeFails>>

\* the slow device sends a DC Info frame of its own accord; it is never silent
\* for as long as the idle timeout
FeedInfo ==
    /\ pc = "size"
    /\ rx = <<>>
    /\ tx = <<>>
    /\ rx' = FrDC
    /\ UNCHANGED <<driver, pc, ready, startPc, stopPc, writer, closed, w_nonce, w_completion,
                   variable_id_queue, variable_info, request_age, response_waiters, reqPc,
                   reqLeft, wEvent, wResult, reqReturn, reqLate, size, idleLeft, tx,
                   devPending, handled, delivered, idleCalls, faults, afterIdle, cause,
                   handler, result, finished, first, call, restarts, writeFails>>

NextDelay ==
    \/ Start
    \/ OpenOk
    \/ StartReturn
    \/ ReadSize
    \/ ReadBody
    \/ Tick
    \/ DeviceReceiveSlow
    \/ FeedReply
    \/ LoseReply
    \/ FeedInfo

SpecDelay == Init /\ [][NextDelay]_vars

----------------------------------------------------------------------------
(* A second session on the same VictronMK3. *)

\* a start() that goes on with the driver object of the session before
RestartSameDriver ==
    /\ pc = "stopped"
    /\ stopPc = "none"
    /\ restarts < MaxRestarts
    /\ restarts' = restarts + 1
    /\ driver' = TRUE
    /\ pc' = "open"
    /\ ready' = FALSE
    /\ startPc' = "waiting"
    /\ closed' = FALSE
    /\ rx' = <<>>
    /\ size' = 0
    /\ UNCHANGED <<stopPc, writer, w_nonce, w_completion, variable_id_queue, variable_info,
                   request_age, response_waiters, reqPc, reqLeft, wEvent, wResult, reqReturn,
                   reqLate, idleLeft, tx, devPending, handled, delivered, idleCalls, faults,
                   afterIdle, cause, handler, result, finished, first, call, writeFails>>

\* start() after stop() has returned (_driver_task is None again), up to its
\* await: _VictronMK3Driver() gives every driver field its first value, the
\* waiter table included (a request still waiting on the old driver keeps its
\* waiter in the old table); the new connection starts with nothing buffered
Restart ==
    /\ pc = "stopped"
    /\ stopPc = "none"
    /\ restarts < MaxRestarts
    /\ restarts' = restarts + 1
    /\ driver' = TRUE
    /\ pc' = "open"
    /\ ready' = FALSE
    /\ startPc' = "waiting"
    /\ writer' = "none"
    /\ closed' = FALSE
    /\ w_nonce' = 0
    /\ w_completion' = FALSE
    /\ variable_id_queue' = <<0, 1, 2, 3, 4, 5, 7, 8>>
    /\ variable_info' = [i \in {} |-> 0]
    /\ request_age' = None
    /\ response_waiters' = <<>>
    /\ rx' = <<>>
    /\ size' = 0
    /\ UNCHANGED <<stopPc, reqPc, reqLeft, wEvent, wResult, reqReturn, reqLate, idleLeft, tx,
                   devPending, handled, delivered, idleCalls, faults, afterIdle, cause,
                   handler, result, finished, first, call, writeFails>>

\* the first session runs with its registry filled
InitRestart == Running(<<>>)

\* a caller asks for DC information
RestartRequest == Request(1, ReqDC)

NextRestart ==
    \/ StopCall
    \/ Cancelled
    \/ StopReturn
    \/ Restart
    \/ OpenOk
    \/ StartReturn
    \/ ReadSize
    \/ ReadBody
    \/ RestartRequest
    \/ ReqTimer(1)
    \/ Resume(1)
    \/ Tick
    \/ DeviceReceive
    \/ FeedReply
    \/ FeedInfo

SpecRestart == InitRestart /\ [][NextRestart]_vars

----------------------------------------------------------------------------
(* A transport that fails to write. *)

\* from now on writer.write raises serial.SerialException; the transport
\* breaks between two requests
WriteBreaks ==
    /\ writer = "open"
    /\ ~writeFails
    /\ \A t \in Tasks : reqPc[t] = "idle"
    /\ writeFails' = TRUE
    /\ UNCHANGED <<driver, pc, ready, startPc, stopPc, writer, closed, w_nonce, w_completion,
                   variable_id_queue, variable_info, request_age, response_waiters, reqPc,
                   reqLeft, wEvent, wResult, reqReturn, reqLate, rx, size, idleLeft, tx,
                   devPending, handled, delivered, idleCalls, faults, afterIdle, cause,
                   handler, result, finished, first, call, restarts>>

\* a caller asks for the version
WriteRequest == Request(1, ReqVersion)

\* the read half comes upon the failure of the transport
WriteReadError == writeFails /\ ReadError("SerialException")

NextWrite ==
    \/ Start
    \/ OpenOk
    \/ StartReturn
    \/ WriteBreaks
    \/ WriteRequest
    \/ ReqTimer(1)
    \/ Resume(1)
    \/ ReadSize
    \/ ReadBody
    \/ WriteReadError
    \/ CloseDone
    \/ Tick
    \/ DeviceReceive
    \/ FeedReply
    \/ FeedInfo
    \/ Feed(FrVersion)

SpecWrite == Init /\ [][NextWrite]_vars

----------------------------------------------------------------------------
(* The bootstrap with a device that answers every request. *)

\* every one of the eight ids is in the registry
Complete == variable_id_queue = <<>>

\* the device sends Info frames once the bootstrap is over
BootFeed(bytes) == Complete /\ Feed(bytes)

BootFrames == {FrAC(1, 1, 9, 8), FrDC}

NextBoot ==
    \/ Start
    \/ OpenOk
    \/ StartReturn
    \/ ReadSize
    \/ ReadBody
    \/ IdleTimeout
    \/ Tick
    \/ DeviceReceive
    \/ FeedReply
    \/ \E f \in BootFrames : BootFeed(f)

SpecBoot == Init /\ [][NextBoot]_vars

\* start() is called, the port opens, the device takes what is written to it
\* and answers, and the driver task runs when it has bytes to read; no
\* passing of time is asked for
BootFairness ==
    /\ WF_vars(Start)
    /\ []<>(pc # "open")
    /\ WF_vars(DeviceReceive)
    /\ WF_vars(FeedReply)
    /\ WF_vars(ReadSize)
    /\ []<>(~(pc = "body" /\ Len(rx) >= size + 1))   \* readexactly returns

SpecBootFair == SpecBoot /\ BootFairness

----------------------------------------------------------------------------
(* The device's variable-info replies, field by field. *)

\* the scale fields the device under test reports
ScaleFields == {0, 1, 100, 16383, 16384, 32668, 32767, 32768, 32769, 32868,
                49152, 49153, 65535}

\* its offset fields
OffsetFields == {0, 4660, 65535}

\* the two marker bytes of its replies: 0x8E and 0x8F, or something else
MarkerFields == {<<142, 143>>, <<141, 143>>, <<142, 0>>}

\* the device under test: the markers, the scale field and the offset field
\* its replies carry
InitParse ==
    \E k \in MarkerFields : \E raw \in ScaleFields : \E offset \in OffsetFields :
        Created(<<k[1], raw, k[2], offset>>)

\* the device answers its oldest variable-info request, under the letter of
\* the request
FeedReplyCall ==
    /\ pc = "size"
    /\ rx = <<>>
    /\ tx = <<>>
    /\ devPending # <<>>
    /\ rx' = DevFrame(<<255, Ord(W_LETTERS[Head(devPending)[1] + 1]), call[1],
                         call[2] % 256, call[2] \div 256, call[3],
                         call[4] % 256, call[4] \div 256>>)
    /\ devPending' = Tail(devPending)
    /\ UNCHANGED <<driver, pc, ready, startPc, stopPc, writer, closed, w_nonce, w_completion,
                   variable_id_queue, variable_info, request_age, response_waiters, reqPc,
                   reqLeft, wEvent, wResult, reqReturn, reqLate, size, idleLeft, tx, handled,
                   delivered, idleCalls, faults, afterIdle, cause, handler, result, finished,
                   first, call, restarts, writeFails>>

\* the device sends a DC Info frame while the bootstrap goes on
ParseFeedInfo == ~Complete /\ FeedInfo

NextParse ==
    \/ Start
    \/ OpenOk
    \/ StartReturn
    \/ ReadSize
    \/ ReadBody
    \/ CloseDone
    \/ DeviceReceive
    \/ FeedReplyCall
    \/ ParseFeedInfo

SpecParse == InitParse /\ [][NextParse]_vars

----------------------------------------------------------------------------
(* The multiplier bytes of an AC Info frame. *)

\* the bytes the device under test puts at msg[1] and msg[2]
Factors == {0, 1, 2, 255}

InitFactor == \E m1 \in Factors : \E m2 \in Factors : Running(<<m1, m2>>)

\* the device sends its AC Info frame
FeedFactor == Feed(FrAC(call[1], call[2], 9, 8))

\* a caller asks for the AC information of phase 1
FactorRequest == Request(1, ReqAC(1))

NextFactor ==
    \/ FeedFactor
    \/ ReadSize
    \/ ReadBody
    \/ IdleTimeout
    \/ FactorRequest
    \/ ReqTimer(1)
    \/ Resume(1)
    \/ Tick
    \/ DeviceReceive

SpecFactor == InitFactor /\ [][NextFactor]_vars

----------------------------------------------------------------------------
(* The subtype byte of an Info frame. *)

\* the bytes the device under test puts at msg[5]
Subtypes == 3..13

InitPhase == \E b \in Subtypes : Running(<<b>>)

\* the device sends its Info frame
FeedPhase == Feed(FrAC(1, 1, 9, call[1]))

\* a caller asks for the AC information of a phase
PhaseRequest == \E phase \in {1, 4} : Request(1, ReqAC(phase))

NextPhase ==
    \/ FeedPhase
    \/ ReadSize
    \/ ReadBody
    \/ IdleTimeout
    \/ PhaseRequest
    \/ ReqTimer(1)
    \/ Resume(1)
    \/ Tick
    \/ DeviceReceive

SpecPhase == InitPhase /\ [][NextPhase]_vars

----------------------------------------------------------------------------
(* Frames the decoder has no branch for. *)

\* checksum-valid frames that fall through every branch of _handle_frame:
\* an empty payload, 0xFF alone, an unknown command letter, a Version reply
\* and an LED reply that are too short, an Info and a Config frame that are
\* too short, and an unknown first byte
OtherFrames ==
    { DevFrame(<<>>),
      DevFrame(<<255>>),
      FrUnknown,
      DevFrame(<<255, 86, 1, 2>>),
      DevFrame(<<255, 76>>),
      DevFrame(<<32, 0, 0, 0, 0, 12, 136, 19, 5, 0, 0, 3, 0>>),
      DevFrame(<<65, 0, 0, 0, 0, 1, 100, 0, 200, 0, 150>>),
      DevFrame(<<66, 1, 2>>) }

InitOther == \E f \in OtherFrames : Created(<<f>>)

\* the device sends the frame under test
FeedOther == Feed(call[1])

\* a caller asks for the version once start() has returned
OtherRequest == startPc = "returned" /\ Request(1, ReqVersion)

NextOther ==
    \/ Start
    \/ OpenOk
    \/ StartReturn
    \/ ReadSize
    \/ ReadBody
    \/ OtherRequest
    \/ ReqTimer(1)
    \/ Resume(1)
    \/ Tick
    \/ DeviceReceive
    \/ FeedReply
    \/ FeedOther
    \/ Feed(FrVersion)

SpecOther == InitOther /\ [][NextOther]_vars

----------------------------------------------------------------------------
(* Callers that are cancelled while they wait. *)

\* the application cancels the task that awaits event.wait() in
\* _wait_for_response, after the device has taken the request: a
\* CancelledError is thrown into the task when it runs next
CancelCaller(t) ==
    /\ reqPc[t] = "waiting"
    /\ tx = <<>>
    /\ reqPc' = [reqPc EXCEPT ![t] = "cancelling"]
    /\ UNCHANGED <<driver, pc, ready, startPc, stopPc, writer, closed, w_nonce, w_completion,
                   variable_id_queue, variable_info, request_age, response_waiters, reqLeft,
                   wEvent, wResult, reqReturn, reqLate, rx, size, idleLeft, tx, devPending,
                   handled, delivered, idleCalls, faults, afterIdle, cause, handler, result,
                   finished, first, call, restarts, writeFails>>

\* the cancelled task runs: the CancelledError passes the except clause, the
\* finally clause removes the waiter, and the request method raises it
CancelResume(t) ==
    /\ reqPc[t] = "cancelling"
    /\ reqReturn' = [reqReturn EXCEPT ![t] = [kind |-> "CancelledError"]]
    /\ response_waiters' = RemoveWaiter(response_waiters, t)
    /\ reqPc' = [reqPc EXCEPT ![t] = "idle"]
    /\ reqLeft' = [reqLeft EXCEPT ![t] = 0]
    /\ wEvent' = [wEvent EXCEPT ![t] = FALSE]
    /\ wResult' = [wResult EXCEPT ![t] = NoResponse]
    /\ UNCHANGED <<driver, pc, ready, startPc, stopPc, writer, closed, w_nonce, w_completion,
                   variable_id_queue, variable_info, request_age, reqLate, rx, size,
                   idleLeft, tx, devPending, handled, delivered, idleCalls, faults,
                   afterIdle, cause, handler, result, finished, first, call, restarts,
                   writeFails>>

NextWaiters ==
    \/ ReadSize
    \/ ReadBody
    \/ \E t \in Tasks : \E r \in {ReqVersion, ReqDC} : Request(t, r)
    \/ \E t \in Tasks : ReqTimer(t)
    \/ \E t \in Tasks : Resume(t)
    \/ \E t \in Tasks : CancelCaller(t)
    \/ \E t \in Tasks : CancelResume(t)
    \/ Tick
    \/ DeviceReceive
    \/ \E f \in {FrVersion, FrDC} : Feed(f)

SpecWaiters == InitReady /\ [][NextWaiters]_vars

----------------------------------------------------------------------------
(* Frame round trip. *)

\* C1: for each of the ten command letters and every payload P of at most
\* MaxPayload (252) bytes, the frame _send_frame writes is
\* [|P|+2, 0xFF, ord(C), P..., checksum] with the sum of its bytes 0 mod 256,
\* and the loop's framing, given exactly those bytes, accepts the frame and
\* hands _handle_frame the command C and the payload P.
C1_FrameRoundTrip ==
    /\ call[1] \in Letters
    /\ Len(call[2]) <= MaxPayload
    /\ \A i \in 1..Len(tx) :
           LET f == tx[i]
               P == call[2]
           IN  /\ Len(f) = Len(P) + 4
               /\ f[1] = Len(P) + 2
               /\ f[2] = 255
               /\ SubSeq(f, 4, Len(f) - 1) = P
               /\ \A j \in 1..Len(f) : f[j] \in 0..255
               /\ Sum(f) % 256 = 0
               /\ f[3] = Ord(call[1])
    /\ (call[3] = "written" /\ tx = <<>> /\ rx = <<>> /\ pc = "size")
           => /\ Len(handled) = Len(call[2]) + 3
              /\ handled[1] = 255
              /\ handled[2] = Ord(call[1])
              /\ SubSeq(handled, 3, Len(handled) - 1) = call[2]

\* a frame with the longest payload has gone through the framing
C1_Witness ==
    /\ call[3] = "written"
    /\ Len(call[2]) = MaxPayload
    /\ tx = <<>>
    /\ rx = <<>>
    /\ pc = "size"
    /\ handled # <<>>

----------------------------------------------------------------------------
(* Corrupted frames. *)

\* the reader's position moves on from a frame body: ReadBody has acted
BodyRead == pc = "body" /\ pc' # "body" /\ rx' # rx

\* C2 as stated: a valid inbound frame presented with any single bit inverted
\* is dropped: no response reaches the handler and no waiter is filled.
C2_AnyFlipDropped ==
    [][(call # <<>> /\ BodyRead) => (delivered' = <<>> /\ wResult' = wResult)]_vars

\* C2, amended: a valid inbound frame presented with one bit inverted in any
\* byte after the length byte is dropped: _handle_frame is not called, no
\* response reaches the handler and no waiter is filled.
C2_FlipAfterLengthDropped ==
    [][(call # <<>> /\ call[2] >= 8 /\ BodyRead)
           => /\ handled' = <<>>
              /\ delivered' = <<>>
              /\ wResult' = wResult
              /\ wEvent' = wEvent
              /\ pc' = "size"]_vars

\* a Version frame with a bit inverted after its length byte has been read and
\* dropped while a Version waiter was pending, and the waiter is still empty
C2_Witness ==
    /\ call # <<>>
    /\ call[1] = FrVersion
    /\ call[2] >= 8
    /\ pc = "size"
    /\ rx = <<>>
    /\ handled = <<>>
    /\ \E i \in 1..Len(response_waiters) :
           /\ response_waiters[i].cls = "Version"
           /\ wResult[response_waiters[i].task] = NoResponse

----------------------------------------------------------------------------
(* The variable registry. *)

RequiredIds == {0, 1, 2, 3, 4, 5, 7, 8}

\* the msg the reader is about to take, when all its bytes are buffered
MsgAtReader == SubSeq(rx, 1, size + 1)

\* ReadBody is about to take a frame that passes the checksum test
ValidAtReader ==
    /\ pc = "body"
    /\ Len(rx) >= size + 1
    /\ (size + Sum(MsgAtReader)) % 256 = 0

\* that frame is a well-formed Info frame of the AC or DC subtype
InfoAtReader ==
    /\ ValidAtReader
    /\ Len(MsgAtReader) >= 15
    /\ MsgAtReader[1] = 32
    /\ MsgAtReader[6] \in 5..12

\* this step writes the Address frame and a variable-info request for the
\* first id of the queue, and nothing else
PumpsRequest ==
    /\ Len(tx') = Len(tx) + 2
    /\ SubSeq(tx', 1, Len(tx)) = tx
    /\ tx'[Len(tx) + 1] = <<4, 255, 65, 1, 0, 187>>
    /\ LET w == tx'[Len(tx) + 2]
       IN  /\ Len(w) = 7
           /\ w[3] = 87 + w_nonce'
           /\ w[4] = 54
           /\ w[5] + 256 * w[6] = variable_id_queue[1]

\* C3: while at least one of the ids 0,1,2,3,4,5,7,8 is not in the registry,
\* a checksum-valid, well-formed Info frame (first byte 0x20, at least 15
\* bytes, AC or DC subtype) gives no response to the handler or to a waiter;
\* the frame is dropped and the only effect it can have is one pumped
\* variable-info request.
C3_GatedInfoDecoding ==
    [][(InfoAtReader /\ pc' # "body" /\ RequiredIds \ DOMAIN variable_info # {})
           => /\ delivered' = <<>>
              /\ wResult' = wResult
              /\ wEvent' = wEvent
              /\ variable_info' = variable_info
              /\ variable_id_queue' = variable_id_queue
              /\ faults' = faults
              /\ pc' = "size"
              /\ \/ UNCHANGED <<tx, w_nonce, w_completion, request_age>>
                 \/ PumpsRequest]_vars

\* an Info frame was handled with the registry partly filled: nothing was
\* delivered and a request was pumped
C3_Witness ==
    /\ pc = "size"
    /\ Len(handled) >= 15
    /\ handled[1] = 32
    /\ DOMAIN variable_info # {}
    /\ RequiredIds \ DOMAIN variable_info # {}
    /\ delivered = <<>>
    /\ tx # <<>>

\* that frame is a reply of the W family
WReplyAtReader ==
    /\ ValidAtReader
    /\ Len(MsgAtReader) >= 2
    /\ MsgAtReader[1] = 255
    /\ MsgAtReader[2] \in 87..90

\* the reply carries the 0x8E and 0x8F markers of variable info
WReplyWellFormed ==
    /\ Len(MsgAtReader) >= 8
    /\ MsgAtReader[3] = 142
    /\ MsgAtReader[6] = 143

\* C4: with a completion pending and the nonce n, a reply whose letter is not
\* the n-th of W, X, Y, Z does not invoke the completion and leaves the nonce
\* and the completion as they are; a reply with the matching letter invokes
\* the completion once and clears it (a well-formed one stores the first id of
\* the queue and sends the request for the next id, which sets a new
\* completion under the next nonce); with no completion pending every reply
\* is dropped.
C4_NonceCorrelation ==
    [][(WReplyAtReader /\ pc' # "body")
           => IF ~w_completion \/ MsgAtReader[2] - 87 # w_nonce
              THEN UNCHANGED <<w_nonce, w_completion, variable_id_queue,
                               variable_info, request_age, tx>>
              ELSE IF ~WReplyWellFormed
              THEN /\ ~w_completion'
                   /\ request_age' = None
                   /\ UNCHANGED <<w_nonce, variable_id_queue, variable_info, tx>>
              ELSE /\ variable_id_queue' = Tail(variable_id_queue)
                   /\ DOMAIN variable_info' =
                          DOMAIN variable_info \cup {variable_id_queue[1]}
                   /\ IF variable_id_queue' = <<>>
                      THEN /\ ~w_completion'
                           /\ request_age' = None
                           /\ UNCHANGED <<w_nonce, tx>>
                      ELSE /\ w_completion'
                           /\ w_nonce' = (w_nonce + 1) % 4
                           /\ request_age' = 0]_vars

\* a well-formed reply to an earlier request for the id still at the head of
\* the queue was handled under a later nonce, and the id is still not stored
C4_Witness ==
    /\ pc = "size"
    /\ Len(handled) >= 8
    /\ handled[1] = 255
    /\ handled[2] \in 87..90
    /\ handled[3] = 142
    /\ handled[2] - 87 # w_nonce
    /\ w_completion
    /\ variable_id_queue # <<>>
    /\ handled[7] = variable_id_queue[1]
    /\ variable_id_queue[1] \notin DOMAIN variable_info

----------------------------------------------------------------------------
(* Waiters and the handler. *)

\* the caller tasks whose waiter this step fills
Filled == {t \in Tasks : wResult'[t] # wResult[t] /\ wResult'[t] # NoResponse}

\* waiter i of the table expects the kind of response r, its predicate (if
\* any) accepts r, and its result slot is empty
Accepts(i, r) ==
    LET w == response_waiters[i]
    IN  /\ w.cls = r.kind
        /\ w.phase # 0 => r.ac_phase = w.phase
        /\ wResult[w.task] = NoResponse

\* C5: a delivered response fills at most one waiter, the first in insertion
\* order that expects its kind, whose predicate accepts it and whose slot is
\* empty; a filled waiter is not filled again; an AC waiter for phase p is
\* filled only by an ACResponse with ac_phase = p, so with AC waiters for
\* phases 1 and 2 an ACResponse of phase 2 fills the phase-2 waiter only.
C5_WaiterFirstFit ==
    [][(ValidAtReader /\ pc' # "body")
           => /\ Cardinality(Filled) <= 1
              /\ \A t \in Tasks : wResult[t] # NoResponse => wResult'[t] = wResult[t]
              /\ delivered' = <<>> => Filled = {}
              /\ delivered' # <<>> =>
                     LET r == delivered'[1]
                         hits == {i \in 1..Len(response_waiters) : Accepts(i, r)}
                     IN  IF hits = {} THEN Filled = {}
                         ELSE \E i \in hits :
                                  /\ \A j \in hits : i <= j
                                  /\ Filled = {response_waiters[i].task}
                                  /\ wResult'[response_waiters[i].task] = r
                                  /\ wEvent'[response_waiters[i].task]]_vars

\* AC waiters for phase 1 and phase 2 are pending in that order, an
\* ACResponse of phase 2 was delivered and only the second waiter holds it
C5_Witness ==
    /\ Len(response_waiters) = 2
    /\ response_waiters[1].cls = "AC" /\ response_waiters[1].phase = 1
    /\ response_waiters[2].cls = "AC" /\ response_waiters[2].phase = 2
    /\ delivered # <<>>
    /\ delivered[1].kind = "AC"
    /\ delivered[1].ac_phase = 2
    /\ wResult[response_waiters[1].task] = NoResponse
    /\ wResult[response_waiters[2].task] = delivered[1]

\* the typed response of a msg, as a sequence of at most one response, for a
\* session whose registry is complete
Decoded(msg) ==
    IF Len(msg) >= 2 /\ msg[1] = 255
    THEN IF msg[2] = 86 /\ Len(msg) >= 6 THEN <<VersionResponse(msg)>>
         ELSE IF msg[2] = 72 /\ Len(msg) >= 3 THEN <<InterfaceResponse(msg)>>
         ELSE IF msg[2] = 76 /\ Len(msg) >= 4 THEN <<LEDResponse(msg)>>
         ELSE IF msg[2] = 83 THEN <<StateResponse>>
         ELSE <<>>
    ELSE IF Len(msg) >= 15 /\ msg[1] = 32
    THEN IF msg[6] = 12 THEN <<DCResponse(Cur, msg)>>
         ELSE IF msg[6] \in 5..11 THEN <<ACResponse(Cur, msg)>>
         ELSE <<>>
    ELSE IF Len(msg) >= 13 /\ msg[1] = 65 THEN <<ConfigResponse(msg)>>
    ELSE <<>>

\* C6: every checksum-valid frame the decoder maps to a typed response gives
\* exactly one handler.on_response call with that response, whether a waiter
\* took the response or none was pending; frames are taken from the head of
\* the received bytes, so the calls come in arrival order.
C6_EveryResponseToHandler ==
    [][(ValidAtReader /\ pc' # "body")
           => /\ delivered' = Decoded(MsgAtReader)
              /\ handled' = MsgAtReader
              /\ rx' = SubSeq(rx, size + 2, Len(rx))]_vars

\* a response was given to the handler and a waiter holds the same response
C6_Witness ==
    /\ pc = "size"
    /\ Len(delivered) = 1
    /\ \E t \in Tasks : reqPc[t] = "waiting" /\ wResult[t] = delivered[1]

----------------------------------------------------------------------------
(* Request timeouts. *)

\* C7: a request whose response does not come within its timeout returns
\* None to its caller, no error being raised: the deadline and the return
\* call no on_fault, leave the driver task where it is and the port open, and
\* the waiter is taken off the table.
C7_TimeoutReturnsNone ==
    [][\A t \in Tasks :
           /\ (reqPc[t] = "waiting" /\ reqPc'[t] = "timedout")
                  => UNCHANGED <<faults, pc, writer, closed, driver, idleCalls>>
           /\ (reqPc[t] = "timedout" /\ reqPc'[t] = "idle")
                  => /\ reqReturn'[t] = NoResponse
                     /\ \A i \in 1..Len(response_waiters') :
                            response_waiters'[i].task # t
                     /\ UNCHANGED <<faults, pc, writer, closed, driver, idleCalls>>]_vars

\* a request has run into its deadline with nothing in its waiter, and the
\* session is reading with the port open and no fault reported
C7_Witness ==
    \E t \in Tasks :
        /\ reqPc[t] = "timedout"
        /\ wResult[t] = NoResponse
        /\ pc \in {"size", "body"}
        /\ writer = "open"
        /\ faults = <<>>

\* C8: every call of a request method returns in the end, with a response or
\* with None, also when the session is stopped or has a fault while the
\* request waits; no deadline is overrun.
C8_EveryRequestReturns ==
    /\ \A t \in Tasks : (reqPc[t] # "idle") ~> (reqPc[t] = "idle")
    /\ [](\A t \in Tasks : reqLeft[t] >= 0)

\* a request waits while the driver task has ended after a fault, or was
\* cancelled by stop()
C8_Witness ==
    \E t \in Tasks :
        /\ reqPc[t] = "waiting"
        /\ wResult[t] = NoResponse
        /\ pc \in {"cancelled", "done", "stopped"}

----------------------------------------------------------------------------
(* Silence on the line. *)

\* the loop has read every byte it received
AtRest == pc = "size" /\ rx = <<>>

\* C9 as stated, its last part: a valid frame that arrives after an idle
\* timeout is decoded and delivered; so once the loop has read every byte it
\* received, no such frame is left without its on_response.
C9_FrameAfterIdleDecoded == AtRest => afterIdle \notin AwaitedFrame

\* C9, amended: when the loop's 5 s timeout passes without a complete frame,
\* handler.on_idle is called once, at the deadline, no fault is reported and
\* the loop reads on with a new 5 s window; on_idle is called at no other
\* time; and if no byte of an unfinished frame was read or buffered when the
\* timeout passed, a valid frame arriving next is decoded and delivered.
C9_IdleTimeout ==
    /\ [][(Reading /\ idleLeft = 0 /\ ReaderBlocked /\ idleLeft' # idleLeft)
              => idleCalls' = (idleCalls + 1) % IdleMod]_vars
    /\ [][idleCalls' # idleCalls
              => /\ Reading
                 /\ idleLeft = 0
                 /\ idleCalls' = (idleCalls + 1) % IdleMod
                 /\ pc' = "size"
                 /\ idleLeft' = IDLE_TIMEOUT_SECONDS
                 /\ UNCHANGED <<faults, writer, closed, driver, rx, tx, delivered>>]_vars
    /\ [](idleLeft \in 0..IDLE_TIMEOUT_SECONDS)
    /\ [](AtRest => afterIdle # "clean-frame")

\* after an on_idle with nothing of a frame read or buffered, a Version
\* frame arrived and its response has reached the handler
C9_Witness ==
    /\ afterIdle = "clean-decoded"
    /\ AtRest
    /\ Len(delivered) = 1
    /\ delivered[1].kind = "Version"
    /\ faults = <<>>

----------------------------------------------------------------------------
(* Faults. *)

\* C10: a fault is terminal: on_fault is called at most once in a session;
\* once it has been called there is no further on_response or on_idle, the
\* writer is gone, its stream (if the port was opened) closed by the same
\* step, and no byte is written any more.
C10_FaultIsTerminal ==
    /\ [](Len(faults) <= 1)
    /\ [](faults # <<>> => /\ writer = "none"
                           /\ pc \in {"closing", "cancelled", "done", "stopped"})
    /\ [][faults' # faults
              => /\ faults = <<>>
                 /\ writer' = "none"
                 /\ closed' = (writer = "open")
                 /\ UNCHANGED <<delivered, idleCalls, tx>>]_vars
    /\ [][faults # <<>>
              => /\ UNCHANGED <<faults, delivered, handled, idleCalls, writer, closed>>
                 /\ tx' = tx \/ tx' = <<>>]_vars

\* after a read fault the stream is closed and the driver task has ended; a
\* request made on the session waits, and nothing is left written
C10_Witness ==
    /\ faults = <<"IO_ERROR">>
    /\ closed
    /\ writer = "none"
    /\ pc = "done"
    /\ tx = <<>>
    /\ \E t \in Tasks : reqPc[t] = "waiting" /\ reqLeft[t] = REQUEST_TIMEOUT_SECONDS


----------------------------------------------------------------------------
(* The fault follows the cause. *)

\* the fault the handler is to be told, given the exception that ended run()
FaultOf(c) ==
    IF c = <<"open", "SerialException">> THEN "INACCESSIBLE"
    ELSE IF c = <<"read", "SerialException">> THEN "IO_ERROR"
    ELSE "EXCEPTION"

----------------------------------------------------------------------------
(* start() and the opening. *)

\* the open has failed
OpenFailed == cause # <<>> /\ cause[1] = "open"

----------------------------------------------------------------------------
(* stop(). *)

\* the handler callbacks made so far
Callbacks == <<faults, delivered, idleCalls, handled>>

\* C13: stop() on a running session ends the driver loop without a fault:
\* the cancellation reaches the task where it reads, no on_fault is made
\* because of it, the writer is taken away and closed before stop() returns,
\* and from the call of stop() on, hence after its return, the handler gets
\* no on_response, no on_idle and no on_fault.
C13_StopIsClean ==
    /\ [][(Reading /\ stopPc = "none" /\ stopPc' = "waiting")
             => pc' = "cancelled" /\ writer' = "open" /\ Callbacks' = Callbacks]_vars
    /\ [][pc = "cancelled"
             => /\ Callbacks' = Callbacks
                /\ cause' = cause
                /\ pc' # "cancelled" => (writer' = "none" /\ (writer = "open" => closed'))]_vars
    /\ [][(stopPc = "waiting" /\ stopPc' = "none")
             => pc = "done" /\ writer = "none" /\ pc' = "stopped"]_vars
    /\ [][(stopPc # "none" \/ pc = "stopped") => Callbacks' = Callbacks]_vars
    /\ [][closed => closed']_vars
    /\ [](pc \in {"done", "stopped"} => writer = "none")

\* stop() has returned from a session that was stopped while it ran: the
\* stream is closed and no fault was reported
C13_Witness ==
    /\ pc = "stopped"
    /\ stopPc = "none"
    /\ closed
    /\ faults = <<>>
    /\ cause = <<>>

----------------------------------------------------------------------------
(* Requests on a Terminated session. *)

\* C14: a request method called when the session is Terminated (before any
\* start(), after stop(), after a fault) writes no byte to the transport, its
\* waiter, if it makes one, is never filled, and it returns no response.
C14_TerminatedRequestsAreNoOps ==
    /\ [](\A t \in Tasks :
              reqLate[t] => /\ reqReturn[t] = NoResponse
                            /\ wResult[t] = NoResponse
                            /\ ~wEvent[t])
    /\ [][Terminated => (tx' = tx \/ tx' = <<>>)]_vars
    /\ [][\A t \in Tasks :
              (reqPc[t] = "idle" /\ reqLate'[t] /\ reqReturn' # reqReturn) => tx' = tx]_vars

\* a request made after a fault, while stop() has not been called, has waited
\* out its timeout and is about to return
C14_Witness ==
    \E t \in Tasks :
        /\ reqLate[t]
        /\ reqPc[t] = "timedout"
        /\ driver
        /\ faults # <<>>

----------------------------------------------------------------------------
(* probe(path). *)

\* probe() returns: its stop() returns
ProbeReturns == handler = "probe" /\ stopPc = "waiting" /\ stopPc' = "none"

\* C15: probe(path) returns the result of the first callback its handler got
\* (OK for a response, UNRESPONSIVE for an idle notification, the fault's name
\* for a fault), whatever callbacks came after the first, and the session is
\* stopped before it returns.
C15_ProbeReturnsFirstEvent ==
    [][ProbeReturns
          => /\ first # "none"
             /\ result = first
             /\ pc = "done"
             /\ ~driver
             /\ writer = "none"]_vars

----------------------------------------------------------------------------
(* The State request. *)

\* v tenths of an amp are at most the limit c
TenthsAtMost(v, c) ==
    \/ v \div 10 < c[2]
    \/ v \div 10 = c[2] /\ 10 * (v % 10) <= c[3]

\* v is the value the request is to carry for the limit c: 0x8000 when c is
\* absent, 0 when c <= 0, else the largest number of tenths that is at most c
\* and at most 0x7FFF
IsStateValue(v, c) ==
    IF c = <<>> THEN v = 32768
    ELSE IF c[1] < 0 \/ (c[2] = 0 /\ c[3] = 0) THEN v = 0
    ELSE /\ v \in 0..32767
         /\ TenthsAtMost(v, c)
         /\ v = 32767 \/ ~TenthsAtMost(v + 1, c)

\* C16: send_state_request(s, c) on a running session writes one frame
\* [7, 0xFF, 'S', s, value & 0xFF, value >> 8, 0x01, 0x80, checksum], where
\* value is 0x8000 if c is absent, 0 if c <= 0 and min(floor(c * 10), 0x7FFF)
\* otherwise; value is in 0..0x7FFF or is 0x8000 and both its bytes are in
\* 0..255; 12.3 A gives 123, 1e9 A gives 0x7FFF, and (ON, 16.0) gives the
\* payload FF 53 03 A0 00 01 80.
C16_StateRequestEncoding ==
    /\ [][(\E t \in Tasks : reqPc[t] = "idle" /\ reqPc'[t] = "waiting")
             => LET f == tx'[Len(tx')]
                    value == f[5] + 256 * f[6]
                IN  /\ tx' = Append(tx, f)
                    /\ \A i \in 1..Len(f) : f[i] \in 0..255
                    /\ Len(f) = 9
                    /\ SubSeq(f, 1, 4) = <<7, 255, 83, call[1]>>
                    /\ IsStateValue(value, call[2])
                    /\ value \in (0..32767) \cup {32768}
                    /\ SubSeq(f, 7, 8) = <<1, 128>>
                    /\ Sum(f) % 256 = 0
                    /\ call[2] = <<1, 12, 30>> => value = 123
                    /\ call[2] = <<1, 1000000000, 0>> => value = 32767
                    /\ (call[1] = 3 /\ call[2] = <<1, 16, 0>>)
                           => SubSeq(f, 2, 8) = <<255, 83, 3, 160, 0, 1, 128>>]_vars
    /\ [][tx' \in {tx, <<>>}
             \/ \E t \in Tasks : reqPc[t] = "idle" /\ reqPc'[t] = "waiting"]_vars

\* the frame of send_state_request(ON, 16.0) has been written
C16_Witness ==
    /\ call = <<3, <<1, 16, 0>>>>
    /\ \E i \in 1..Len(tx) : SubSeq(tx[i], 2, 8) = <<255, 83, 3, 160, 0, 1, 128>>

----------------------------------------------------------------------------
(* Startup. *)

\* the frames on the wire at startup: 'V' without payload, 'A' [0x01, 0x00],
\* and 'X' (the W family, nonce 1) [0x36, 0x00, 0x00]
StartupFrames ==
    <<<<2, 255, 86, 169>>, <<4, 255, 65, 1, 0, 187>>, <<5, 255, 88, 54, 0, 0, 110>>>>

\* C17: after a successful open and before the first byte is read the driver
\* writes, in this order, a Version request ('V', no payload), an address
\* frame ('A', [0x01, 0x00]) and the first variable-info request (a W-family
\* frame with payload [0x36, 0x00, 0x00], for id 0); no reset ('R') frame is
\* ever written.
C17_StartupFrames ==
    /\ [][(pc = "open" /\ pc' \in {"size", "body"})
             => /\ tx = <<>>
                /\ tx' = StartupFrames
                /\ tx'[3][3] \in {87, 88, 89, 90}
                /\ variable_id_queue'[1] = 0
                /\ rx' = <<>> /\ handled' = <<>> /\ pc' = "size"]_vars
    /\ [](\A i \in 1..Len(tx) : tx[i][3] # 82)
    /\ [](pc \in {"none", "open"} => tx = <<>> /\ devPending = <<>>)

\* the port has just opened: the three frames are written and nothing is read
C17_Witness ==
    /\ pc = "size"
    /\ tx = StartupFrames
    /\ rx = <<>>
    /\ handled = <<>>

----------------------------------------------------------------------------
(* The order of variable-info requests. *)

\* the address frame: 'A' [0x01, 0x00]
AddressFrame == <<4, 255, 65, 1, 0, 187>>

\* the frame is a W-family request for the variable id
IsRequestFor(f, id) ==
    /\ Len(f) = 7
    /\ f[1] = 5 /\ f[2] = 255
    /\ f[3] \in 87..90
    /\ SubSeq(f, 4, 6) = <<54, id % 256, id \div 256>>
    /\ Sum(f) % 256 = 0

\* this step writes the address frame and then a request for id, and no
\* other frame but, at startup, the Version request before them
WritesRequestFor(id) ==
    LET n == Len(tx')
    IN  /\ n >= 2
        /\ tx' = (IF pc = "open" THEN <<<<2, 255, 86, 169>>>> ELSE tx)
                     \o <<AddressFrame, tx'[n]>>
        /\ IsRequestFor(tx'[n], id)

\* s is what is left of t after some of its first elements are taken away
IsSuffix(s, t) == Len(s) <= Len(t) /\ s = SubSeq(t, Len(t) - Len(s) + 1, Len(t))

\* C18: variable-info requests are issued for the ids 0,1,2,3,4,5,7,8 in this
\* order: every request written is for the id at the head of the queue,
\* carries the payload [0x36, id & 0xFF, id >> 8] and comes right after an
\* 'A' frame with payload [0x01, 0x00]; the head of the queue moves on, by one
\* id, only when a well-formed reply under the current nonce is accepted, so
\* the next id is asked for only after that; id 6 is never asked for.
C18_RequestOrder ==
    /\ [](IsSuffix(variable_id_queue, <<0, 1, 2, 3, 4, 5, 7, 8>>))
    /\ [][tx' \in {tx, <<>>} \/ WritesRequestFor(variable_id_queue'[1])]_vars
    /\ [][variable_id_queue' # variable_id_queue
             => /\ variable_id_queue' = Tail(variable_id_queue)
                /\ WReplyAtReader /\ WReplyWellFormed
                /\ w_completion /\ MsgAtReader[2] - 87 = w_nonce
                /\ pc' = "size"
                /\ variable_id_queue[1] \in DOMAIN variable_info'
                /\ variable_id_queue' # <<>>
                       => WritesRequestFor(variable_id_queue'[1])]_vars
    /\ [](\A i \in 1..Len(tx) :
              tx[i][3] \in 87..90
                  => /\ i > 1
                     /\ tx[i - 1] = AddressFrame
                     /\ \E id \in RequiredIds : IsRequestFor(tx[i], id))
    /\ [](\A i \in 1..Len(devPending) : devPending[i][2] \in RequiredIds)

\* the ids 0 to 5 are stored and the request on the wire is for id 7
C18_Witness ==
    /\ variable_id_queue = <<7, 8>>
    /\ DOMAIN variable_info = 0..5
    /\ Len(tx) = 2
    /\ tx[1] = AddressFrame
    /\ IsRequestFor(tx[2], 7)

----------------------------------------------------------------------------
(* One variable-info request at a time. *)

\* ReadBody is about to take a checksum-valid Info frame of any subtype
AnyInfoAtReader ==
    /\ ValidAtReader
    /\ Len(MsgAtReader) >= 15
    /\ MsgAtReader[1] = 32

\* the last variable-info request is unanswered and has not expired
Outstanding ==
    /\ w_completion
    /\ request_age # None
    /\ request_age < REQUEST_TIMEOUT_SECONDS

\* this step writes a W-family request
WritesRequest == tx' # <<>> /\ tx' # tx /\ tx'[Len(tx')][3] \in 87..90

\* C19: the driver holds one pending completion, set by the last
\* variable-info request and cleared when a reply under its nonce arrives; a
\* new request is written only at startup, when the reply to the previous one
\* is accepted (its completion fires), or, on an Info frame, when the previous
\* one has been answered or has expired; while a request is unanswered and
\* unexpired an arriving Info frame writes nothing and leaves nonce,
\* completion and request time alone.
C19_OneRequestOutstanding ==
    /\ [](w_completion <=> request_age # None)
    /\ [][WritesRequest
             => /\ w_completion' /\ request_age' = 0
                /\ \/ pc = "open"
                   \/ /\ WReplyAtReader /\ WReplyWellFormed
                      /\ w_completion /\ MsgAtReader[2] - 87 = w_nonce
                   \/ AnyInfoAtReader /\ ~Outstanding]_vars
    /\ [][(AnyInfoAtReader /\ pc' # "body" /\ Outstanding)
             => UNCHANGED <<tx, w_nonce, w_completion, request_age,
                            variable_id_queue, variable_info>>]_vars

\* an Info frame was handled while the request was unanswered and unexpired,
\* and nothing was written
C19_Witness ==
    /\ pc = "size"
    /\ Len(handled) >= 15
    /\ handled[1] = 32
    /\ Outstanding
    /\ variable_id_queue # <<>>
    /\ tx = <<>>

----------------------------------------------------------------------------
(* Retrying a variable-info request. *)

\* two seconds, in half-seconds
TwoSeconds == 4

\* this step writes a request for the id already asked for, while the
\* previous request is unanswered
Retries ==
    /\ pc # "open"
    /\ w_completion
    /\ request_age # None
    /\ WritesRequest
    /\ variable_id_queue' = variable_id_queue

\* C20 as stated: an unanswered variable-info request is considered expired
\* after 2 seconds, and only then is the request for the same id issued again.
C20_RetriedAfterTwoSeconds ==
    [][Retries => request_age >= TwoSeconds]_vars

\* C20, amended: an unanswered variable-info request is expired once
\* REQUEST_TIMEOUT_SECONDS (0.5 s) have passed; the first Info frame handled
\* after that makes the driver write the address frame and a request for the
\* same id, the head of the queue, under the next nonce; an Info frame handled
\* before that writes nothing, and nothing but an Info frame makes the driver
\* retry: it keeps no timer for it.
C20_RetriedOnInfoAfterExpiry ==
    /\ [][(AnyInfoAtReader /\ pc' # "body" /\ variable_id_queue # <<>>
              /\ request_age # None /\ request_age >= REQUEST_TIMEOUT_SECONDS)
             => /\ WritesRequestFor(variable_id_queue[1])
                /\ variable_id_queue' = variable_id_queue
                /\ w_nonce' = (w_nonce + 1) % 4
                /\ w_completion'
                /\ request_age' = 0]_vars
    /\ [][Retries => /\ AnyInfoAtReader
                     /\ request_age >= REQUEST_TIMEOUT_SECONDS
                     /\ WritesRequestFor(variable_id_queue[1])]_vars
    /\ [][(AnyInfoAtReader /\ pc' # "body" /\ request_age # None
              /\ request_age < REQUEST_TIMEOUT_SECONDS)
             => tx' = tx]_vars

\* an Info frame handled half a second after the first request has made the
\* driver ask for id 0 again, under the next nonce
C20_Witness ==
    /\ pc = "size"
    /\ Len(handled) >= 15
    /\ handled[1] = 32
    /\ variable_id_queue = <<0, 1, 2, 3, 4, 5, 7, 8>>
    /\ w_nonce = 2
    /\ request_age = 0
    /\ Len(tx) = 2
    /\ tx[1] = AddressFrame
    /\ IsRequestFor(tx[2], 0)

----------------------------------------------------------------------------
(* The registry once it is filled. *)

\* every one of the eight ids has its VariableInfo
Populated == RequiredIds \subseteq DOMAIN variable_info

\* C21: a VariableInfo stored for an id is never changed or removed for the
\* rest of the session; and once all eight ids are stored, no W-family
\* request is written and no completion is pending, whatever the device
\* sends afterwards (late replies included).
C21_RegistryImmutable ==
    /\ [][\A id \in DOMAIN variable_info :
              /\ id \in DOMAIN variable_info'
              /\ variable_info'[id] = variable_info[id]]_vars
    /\ [][Populated
             => /\ ~w_completion
                /\ ~w_completion'
                /\ w_nonce' = w_nonce
                /\ ~WritesRequest
                /\ \A i \in 1..Len(tx') : ~IsWRequest(tx'[i])]_vars

\* with all eight ids stored, a late well-formed variable-info reply (its
\* letter is not that of the last request) has been handled, and nothing came
\* of it
C21_Witness ==
    /\ Populated
    /\ pc = "size"
    /\ Len(handled) >= 8
    /\ handled[1] = 255
    /\ handled[2] \in 87..90
    /\ handled[2] # 87 + w_nonce
    /\ handled[3] = 142
    /\ handled[6] = 143
    /\ variable_id_queue = <<>>
    /\ ~w_completion
    /\ tx = <<>>

----------------------------------------------------------------------------
(* Starting again after stop. *)

\* the ids still in the queue
Queued == {variable_id_queue[i] : i \in 1..Len(variable_id_queue)}

\* C22: after stop() has returned, start() can be called again; the new
\* session begins with an empty registry, the full id queue, nonce 0, no
\* completion pending and an empty waiter table; in the new session the
\* registry holds only what the new bootstrap stored, and an Info frame is
\* not decoded until the new bootstrap has stored all eight ids.
C22_RestartIsFresh ==
    /\ [][(pc = "stopped" /\ pc' = "open")
             => /\ driver'
                /\ variable_info' = [i \in {} |-> 0]
                /\ variable_id_queue' = <<0, 1, 2, 3, 4, 5, 7, 8>>
                /\ w_nonce' = 0
                /\ ~w_completion'
                /\ request_age' = None
                /\ response_waiters' = <<>>
                /\ writer' = "none"]_vars
    /\ [](restarts >= 1 => DOMAIN variable_info = RequiredIds \ Queued)
    /\ [][(restarts >= 1 /\ AnyInfoAtReader /\ pc' # "body" /\ ~Populated)
             => /\ delivered' = <<>>
                /\ wResult' = wResult
                /\ wEvent' = wEvent]_vars

\* in the second session, with a caller waiting for DC information and the
\* new registry partly filled, a DC Info frame was handled and dropped
C22_Witness ==
    /\ restarts = 1
    /\ pc = "size"
    /\ Len(handled) >= 15
    /\ handled[1] = 32
    /\ handled[6] = 12
    /\ DOMAIN variable_info # {}
    /\ ~Populated
    /\ delivered = <<>>
    /\ response_waiters # <<>>
    /\ reqPc[1] = "waiting"
    /\ ~wEvent[1]

----------------------------------------------------------------------------
(* Writes that fail. *)

\* this step is task t going into a request method of a running facade
RequestStep(t) ==
    /\ driver
    /\ reqPc[t] = "idle"
    /\ <<reqPc[t], reqReturn[t], reqLate[t]>>' # <<reqPc[t], reqReturn[t], reqLate[t]>>

\* C23: a write that fails (writer.write raises serial.SerialException) does
\* not come out of a request method and calls no on_fault: the request waits
\* for its response like any other and returns the response or None; the
\* session ends only through what the read half of the loop comes upon.
C23_WriteFailureSwallowed ==
    /\ [](\A t \in Tasks : reqReturn[t] # Raised)
    /\ [][\A t \in Tasks :
              RequestStep(t)
                  => /\ reqPc'[t] = "waiting"
                     /\ Len(response_waiters') = Len(response_waiters) + 1
                     /\ response_waiters'[Len(response_waiters')].task = t
                     /\ faults' = faults
                     /\ pc' = pc
                     /\ (writeFails => tx' = tx)]_vars
    /\ [][(writeFails' # writeFails) => (faults' = faults /\ pc' = pc)]_vars
    /\ [][(faults' # faults)
             => /\ Reading
                /\ cause' # <<>>
                /\ cause'[1] = "read"]_vars

\* a request made after the transport began to fail has been given the
\* Version frame the device sent, with no fault reported
C23_Witness ==
    /\ writeFails
    /\ writer = "open"
    /\ reqPc[1] = "waiting"
    /\ wEvent[1]
    /\ wResult[1].kind = "Version"
    /\ faults = <<>>
    /\ variable_id_queue # <<>>

----------------------------------------------------------------------------
(* A response matched at the deadline. *)

\* this step is the task of t's request method running again and returning
Returns(t) == reqPc[t] # "idle" /\ reqPc'[t] = "idle"

\* C24: a request whose waiter was given a response while it was in the table
\* returns that response, also when its timeout expires between the match
\* and the task running again.
C24_MatchedResponseReturned ==
    [][\A t \in Tasks :
          (Returns(t) /\ wResult[t] # NoResponse) => reqReturn'[t] = wResult[t]]_vars

----------------------------------------------------------------------------
(* Late replies and the nonce. *)

\* C25: the VariableInfo stored for an id was parsed from a reply to a
\* request for that id (the device's reply to a request for an id carries
\* that id in its offset field), however late replies come.
C25_InfoFromOwnReply ==
    \A id \in DOMAIN variable_info : variable_info[id].offset = id

----------------------------------------------------------------------------
(* Frames the decoder cannot take. *)

\* C26: handling a frame that passed the checksum test reports no fault,
\* whatever bytes the frame holds.
C26_DecodingNeverFaults ==
    [][(ValidAtReader /\ BodyRead) => (faults' = faults /\ pc' = "size")]_vars

----------------------------------------------------------------------------
(* The bootstrap, answered. *)

\* ReadBody is about to take a well-formed variable-info reply that carries
\* the letter of the pending request
ReplyAccepted ==
    /\ WReplyAtReader
    /\ WReplyWellFormed
    /\ BodyRead
    /\ w_completion
    /\ MsgAtReader[2] = 87 + w_nonce

\* C27: with a device that answers every variable-info request with a
\* well-formed reply under the letter of the request, every accepted reply
\* stores the id at the head of the queue and, in the same step, writes the
\* request for the next id; a request is written only when the port opens and
\* when a reply is accepted, so eight exchanges fill the registry; neither an
\* Info frame nor the passing of time is needed, and the bootstrap does come
\* to its end; from then on a well-formed AC or DC Info frame is decoded and
\* delivered.
C27_BootstrapByReplies ==
    /\ [][ReplyAccepted
             => /\ variable_id_queue' = Tail(variable_id_queue)
                /\ DOMAIN variable_info' = DOMAIN variable_info \cup {variable_id_queue[1]}
                /\ IF variable_id_queue' = <<>>
                   THEN tx' = tx /\ ~w_completion'
                   ELSE /\ WritesRequestFor(variable_id_queue'[1])
                        /\ w_nonce' = (w_nonce + 1) % 4
                        /\ w_completion']_vars
    /\ [][WritesRequest => (pc = "open" \/ ReplyAccepted)]_vars
    /\ [](w_completion => w_nonce = (9 - Len(variable_id_queue)) % 4)
    /\ [](Len(variable_id_queue) + Cardinality(DOMAIN variable_info) = 8)
    /\ [][(InfoAtReader /\ BodyRead /\ Complete)
             => /\ Len(delivered') = 1
                /\ delivered'[1].kind = (IF MsgAtReader[6] = 12 THEN "DC" ELSE "AC")
                /\ faults' = faults]_vars
    /\ <>Complete

\* the registry was filled by the eight replies alone, with no time passed
\* since the last request, and an AC Info frame has been delivered since
C27_Witness ==
    /\ Complete
    /\ Populated
    /\ w_nonce = 0
    /\ idleCalls = 0
    /\ pc = "size"
    /\ Len(handled) >= 15
    /\ handled[1] = 32
    /\ Len(delivered) = 1
    /\ delivered[1].kind = "AC"

----------------------------------------------------------------------------
(* Parsing a variable-info reply. *)

\* the VariableInfo the reply fields stand for, for the id asked for: the
\* scale is kept as the fraction n / d
InfoOf(raw, offset, id) ==
    LET s == IF raw < 32768 THEN raw ELSE 65536 - raw
    IN  [signed |-> (raw >= 32768 \/ id = 3),
         n |-> IF s < 16384 THEN s ELSE 1,
         d |-> IF s < 16384 THEN 1 ELSE 32768 - s,
         offset |-> offset]

\* ReadBody is about to take a reply under the letter of the pending request
ReplyTaken ==
    /\ WReplyAtReader
    /\ BodyRead
    /\ w_completion
    /\ MsgAtReader[2] = 87 + w_nonce

\* C28: a reply under the letter of the pending request is accepted only with
\* msg[2] = 0x8E and msg[5] = 0x8F (and at least 8 bytes); the VariableInfo
\* stored for the id at the head of the queue is then the one the scale field
\* msg[3] | msg[4] << 8 and the offset field msg[6] | msg[7] << 8 stand for,
\* with signed forced for id 3, and depends on nothing else; a reply without
\* the markers stores nothing and leaves the id at the head of the queue.
\* For the scale field 0x8000 the quotient 1 / (0x8000 - s) has no value:
\* nothing is stored and the division raises.
C28_ReplyParsing ==
    [][ReplyTaken
         => LET msg == MsgAtReader
                raw == msg[4] + 256 * msg[5]
                offset == msg[7] + 256 * msg[8]
                id == variable_id_queue[1]
            IN  IF ~(Len(msg) >= 8 /\ msg[3] = 142 /\ msg[6] = 143)
                THEN /\ variable_info' = variable_info
                     /\ variable_id_queue' = variable_id_queue
                     /\ faults' = faults
                ELSE IF raw = 32768
                THEN /\ variable_info' = variable_info
                     /\ variable_id_queue' = variable_id_queue
                     /\ faults' = Append(faults, "EXCEPTION")
                ELSE /\ variable_info' = (id :> InfoOf(raw, offset, id)) @@ variable_info
                     /\ variable_id_queue' = Tail(variable_id_queue)
                     /\ faults' = faults]_vars

\* the reply for id 3 reported an unsigned scale of 1/100 and the offset
\* 0x1234, and was stored as signed
C28_Witness ==
    /\ call = <<142, 32668, 143, 4660>>
    /\ 3 \in DOMAIN variable_info
    /\ variable_info[3] = [signed |-> TRUE, n |-> 1, d |-> 100, offset |-> 4660]
    /\ variable_info[2] = [signed |-> FALSE, n |-> 1, d |-> 100, offset |-> 4660]

----------------------------------------------------------------------------
(* The currents of an ACResponse. *)

\* ReadBody is about to take an AC Info frame, with the registry filled
ACAtReader ==
    /\ InfoAtReader
    /\ MsgAtReader[6] \in 5..11
    /\ BodyRead
    /\ Complete

\* the number a byte stands for when it is read as signed
SignedByte(b) == IF b >= 128 THEN b - 256 ELSE b

\* the bytes that encode -1, 0 and +1
SignBytes == {255, 0, 1}

\* value times m
Product(v, m) == [n |-> v.n * m, d |-> v.d]

\* C29 as stated: msg[1] and msg[2] are signed multipliers; for a byte that
\* encodes -1, 0 or +1 the delivered ac_mains_current and ac_inverter_current
\* are the parsed values negated, zero, or unchanged.
C29_SignedMultipliers ==
    [][(ACAtReader /\ MsgAtReader[2] \in SignBytes /\ MsgAtReader[3] \in SignBytes)
         => LET msg == MsgAtReader
                r == delivered'[1]
            IN  /\ r.ac_mains_current =
                       Product(parse(variable_info[1], SubSeq(msg, 9, 10)),
                               SignedByte(msg[2]))
                /\ r.ac_inverter_current =
                       Product(parse(variable_info[3], SubSeq(msg, 13, 14)),
                               SignedByte(msg[3]))]_vars

\* C29, amended: ac_mains_current is var[1].parse(msg[8..10]) times msg[1] and
\* ac_inverter_current is var[3].parse(msg[12..14]) times msg[2], where msg[1]
\* and msg[2] are taken as unsigned bytes 0..255: 0 yields 0, 1 leaves the
\* value unchanged, and 0xFF multiplies it by 255.
C29_UnsignedMultipliers ==
    [][ACAtReader
         => LET msg == MsgAtReader
                r == delivered'[1]
            IN  /\ Len(delivered') = 1
                /\ r.kind = "AC"
                /\ r.ac_mains_current =
                       Product(parse(variable_info[1], SubSeq(msg, 9, 10)), msg[2])
                /\ r.ac_inverter_current =
                       Product(parse(variable_info[3], SubSeq(msg, 13, 14)), msg[3])]_vars

\* the frame with msg[1] = 0xFF and msg[2] = 1 was delivered: the mains
\* current 0.11 A came out as 28.05 A, the inverter current as 0.01 A
C29_Witness ==
    /\ call = <<255, 1>>
    /\ pc = "size"
    /\ Len(delivered) = 1
    /\ delivered[1].kind = "AC"
    /\ delivered[1].ac_mains_current = [n |-> 2805, d |-> 100]
    /\ delivered[1].ac_inverter_current = [n |-> 1, d |-> 100]

----------------------------------------------------------------------------
(* The phase fields of an ACResponse. *)

\* C30: for every subtype b = msg[5] in 0x05..0x0B the delivered ACResponse
\* has ac_phase = max(9 - b, 1), a number in 1..4, and ac_num_phases =
\* max(b - 7, 0), a number in 0..4, as the device reports them; ac_num_phases
\* is not zero only when ac_phase is 1.
C30_PhaseFields ==
    [][(AnyInfoAtReader /\ BodyRead /\ Complete /\ MsgAtReader[6] \in 5..11)
         => LET b == MsgAtReader[6]
                r == delivered'[1]
            IN  /\ Len(delivered') = 1
                /\ r.kind = "AC"
                /\ r.ac_phase = (IF 9 - b >= 1 THEN 9 - b ELSE 1)
                /\ r.ac_phase \in 1..4
                /\ r.ac_num_phases = (IF b - 7 >= 0 THEN b - 7 ELSE 0)
                /\ r.ac_num_phases \in 0..4
                /\ (r.ac_num_phases # 0 => r.ac_phase = 1)]_vars

\* the frame of subtype 0x0B was delivered as phase 1 of 4
C30_Witness ==
    /\ call = <<11>>
    /\ pc = "size"
    /\ Len(delivered) = 1
    /\ delivered[1].kind = "AC"
    /\ delivered[1].ac_phase = 1
    /\ delivered[1].ac_num_phases = 4

----------------------------------------------------------------------------
(* The nonce of the W-family requests. *)

\* the command byte of the request this step writes
LetterWritten == tx'[Len(tx')][3]

\* C31: the nonce is always in {0,1,2,3}; every W-family request increments
\* it by one modulo 4, stores its completion and is sent with the letter
\* ['W','X','Y','Z'][nonce] of the new value; the nonce changes in no other
\* way, so the letter differs from that of the request before it, and the
\* first request of a session uses 'X'.
C31_NonceLetters ==
    /\ [](w_nonce \in 0..3)
    /\ [][/\ (WritesRequest =>
                (/\ w_nonce' = (w_nonce + 1) % 4
                 /\ w_completion'
                 /\ LetterWritten = Ord(W_LETTERS[w_nonce' + 1])
                 /\ LetterWritten # Ord(W_LETTERS[w_nonce + 1])))
           /\ (w_nonce' # w_nonce => WritesRequest)
           /\ ((pc = "open" /\ pc' = "size") =>
                (WritesRequest /\ LetterWritten = Ord("X")))]_vars

\* the fourth request of a session went out under 'W': the nonce has wrapped
C31_Witness ==
    /\ w_nonce = 0
    /\ w_completion
    /\ tx # <<>>
    /\ tx[Len(tx)][3] = Ord("W")

----------------------------------------------------------------------------
(* Frames that are ignored. *)

\* m is a command reply (0xFF and one of V, L, S, H, W, X, Y, Z, long
\* enough), an Info frame (0x20, 15 bytes or more) or a Config frame (0x41,
\* 13 bytes or more)
Recognised(m) ==
    \/ /\ Len(m) >= 2
       /\ m[1] = 255
       /\ \/ m[2] = 86 /\ Len(m) >= 6
          \/ m[2] = 72 /\ Len(m) >= 3
          \/ m[2] = 76 /\ Len(m) >= 4
          \/ m[2] \in {83, 87, 88, 89, 90}
    \/ Len(m) >= 15 /\ m[1] = 32
    \/ Len(m) >= 13 /\ m[1] = 65

\* C32: a checksum-valid inbound frame that is not a recognised command
\* reply, not an Info frame and not a Config frame is ignored: no handler
\* callback is made, no waiter is filled, no bytes are written, and the
\* nonce, the pending completion, the variable registry and the id queue are
\* left unchanged.
C32_OtherFramesIgnored ==
    [][(ValidAtReader /\ BodyRead /\ ~Recognised(MsgAtReader))
         => /\ delivered' = <<>>
            /\ faults' = faults
            /\ idleCalls' = idleCalls
            /\ wResult' = wResult
            /\ wEvent' = wEvent
            /\ response_waiters' = response_waiters
            /\ tx' = tx
            /\ w_nonce' = w_nonce
            /\ w_completion' = w_completion
            /\ variable_info' = variable_info
            /\ variable_id_queue' = variable_id_queue
            /\ request_age' = request_age
            /\ pc' = "size"]_vars

\* a Version reply that is too short was handled while a caller waits for a
\* Version reply and a variable-info request is unanswered
C32_Witness ==
    /\ pc = "size"
    /\ handled = <<255, 86, 1, 2, 164>>
    /\ response_waiters # <<>>
    /\ reqPc[1] = "waiting"
    /\ w_completion
    /\ variable_id_queue # <<>>

----------------------------------------------------------------------------
(* The registry and the queue together. *)

\* the ids the driver asks for, in the order of the queue __init__ builds
RequiredOrder == <<0, 1, 2, 3, 4, 5, 7, 8>>

\* C33: in every reachable state the ids stored in the registry followed by
\* the ids left in the queue are the sequence [0,1,2,3,4,5,7,8]: the queue is
\* a suffix of it and the registry holds exactly the ids before that suffix;
\* hence an Info frame met while the queue is not empty is not decoded, and
\* one met when it is empty finds all eight ids and is decoded without a
\* failed lookup.
C33_RegistryThenQueue ==
    /\ [](\E k \in 0..Len(RequiredOrder) :
              /\ variable_id_queue = SubSeq(RequiredOrder, k + 1, Len(RequiredOrder))
              /\ DOMAIN variable_info = {RequiredOrder[i] : i \in 1..k})
    /\ [][(InfoAtReader /\ BodyRead)
             => IF variable_id_queue = <<>>
                THEN /\ RequiredIds \subseteq DOMAIN variable_info
                     /\ MsgAtReader[6] = 12 =>
                            (/\ Len(delivered') = 1
                             /\ delivered'[1].kind = "DC"
                             /\ faults' = faults)
                ELSE delivered' = <<>>]_vars

\* a DC frame was decoded with the eight ids stored and the queue empty
C33_Witness ==
    /\ variable_id_queue = <<>>
    /\ DOMAIN variable_info = {0, 1, 2, 3, 4, 5, 7, 8}
    /\ pc = "size"
    /\ Len(handled) >= 15
    /\ handled[1] = 32
    /\ Len(delivered) = 1
    /\ delivered[1].kind = "DC"

----------------------------------------------------------------------------
(* The waiter table. *)

\* the tasks that are inside _wait_for_response
Awaiting == {t \in Tasks : reqPc[t] # "idle"}

\* C34: in every reachable state the waiter table holds exactly the waiters
\* of the request methods that are awaiting a response, one each: a waiter is
\* added when its request starts to wait and removed on every way out
\* (response, timeout, cancellation of the caller); so the table is empty
\* when every request has returned, and a response that comes later is not
\* taken by the waiter of a request that has returned.
C34_WaiterTable ==
    /\ [](/\ {response_waiters[i].task : i \in 1..Len(response_waiters)} = Awaiting
           /\ Len(response_waiters) = Cardinality(Awaiting)
           /\ (Awaiting = {} => response_waiters = <<>>)
           /\ \A t \in Tasks \ Awaiting : wResult[t] = NoResponse /\ ~wEvent[t])
    /\ [][\A t \in Tasks :
              /\ (t \notin Awaiting /\ t \in Awaiting')
                     => response_waiters' = Append(response_waiters, response_waiters'[Len(response_waiters')])
              /\ Returns(t) => response_waiters' = RemoveWaiter(response_waiters, t)
              /\ (t \notin Awaiting /\ BodyRead)
                     => (wResult'[t] = NoResponse /\ ~wEvent'[t])]_vars

\* a request for the version was cancelled and has returned, its waiter is
\* gone, and the Version reply arrives only now
C34_Witness ==
    /\ reqReturn[1] = [kind |-> "CancelledError"]
    /\ Awaiting = {}
    /\ response_waiters = <<>>
    /\ ValidAtReader
    /\ MsgAtReader[1] = 255
    /\ MsgAtReader[2] = 86

====
